---- MODULE Spec2Model ----
(***************************************************************************)
(* Binary morphology of scipy.ndimage (morphology.py): binary_erosion,     *)
(* binary_dilation, binary_opening, binary_closing and the multi-iteration *)
(* driver _binary_erosion.  An array is a record                           *)
(*     [shape |-> <<d1, ..., dn>>, dtype |-> "bool" | "complex",           *)
(*      on |-> the set of coordinates holding a nonzero value]             *)
(* with 0-based coordinates <<c1, ..., cn>>.  The compiled kernels of      *)
(* _nd_image are modelled from their contract.                             *)
(***************************************************************************)
EXTENDS Integers, Sequences, FiniteSets, TLC

VARIABLES
    call,            \* the caller's call: function name and arguments
    stage,           \* which _binary_erosion call of the top-level function runs
    pc,              \* position inside the running call
    input, structure, iterations, mask, output, border_value, origin,
    invert, brute_force,               \* parameters of _binary_erosion
    cit, return_value,                 \* locals of _binary_erosion
    tmp_in, tmp_out, changed, ii,      \* locals of the brute-force loop
    coordinate_list,                   \* worklist handed to binary_erosion2
    heap,            \* contents of the output and temporary buffers
    result,          \* what the call returned (a buffer name or None)
    error            \* the exception raised, or None

vars == <<call, stage, pc, input, structure, iterations, mask, output,
          border_value, origin, invert, brute_force, cit, return_value,
          tmp_in, tmp_out, changed, ii, coordinate_list, heap, result, error>>

None == "None"

\* the absent array (None where the code expects an array or None)
NoArray == [shape |-> <<>>, dtype |-> "none", on |-> {}]

(***************************************************************************)
(* Bounds of the model.                                                    *)
(***************************************************************************)
MaxLen == 3
MaxIter == 3

(***************************************************************************)
(* Arrays.                                                                 *)
(***************************************************************************)
Rank(a) == Len(a.shape)

RECURSIVE SeqMax(_)
SeqMax(s) == IF s = <<>> THEN 0
             ELSE LET m == SeqMax(Tail(s)) IN IF Head(s) > m THEN Head(s) ELSE m

RECURSIVE SeqProduct(_)
SeqProduct(s) == IF s = <<>> THEN 1 ELSE Head(s) * SeqProduct(Tail(s))

Coords(shape) ==
    {c \in [DOMAIN shape -> 0..(SeqMax(shape) - 1)] :
        \A i \in DOMAIN shape : c[i] < shape[i]}

BoolArray(shape, on) == [shape |-> shape, dtype |-> "bool", on |-> on]

Zeros(shape) == BoolArray(shape, {})

Ones(shape) == BoolArray(shape, Coords(shape))

AllArrays(shape) == {BoolArray(shape, s) : s \in SUBSET Coords(shape)}

LogicalNot(a) == BoolArray(a.shape, Coords(a.shape) \ a.on)

Plus(p, o) == [i \in DOMAIN p |-> p[i] + o[i]]

(***************************************************************************)
(* NeighborOffsetTable: position_in_structure - (shape // 2 + origin) for  *)
(* every true cell of the structuring element.                             *)
(***************************************************************************)
NeighborOffsetTable(struct, orig) ==
    {[i \in DOMAIN idx |-> idx[i] - ((struct.shape[i] \div 2) + orig[i])] :
        idx \in struct.on}

(***************************************************************************)
(* BorderPolicy: the effective value at a coordinate that may lie outside  *)
(* the array; one scalar border value applies uniformly outside.           *)
(***************************************************************************)
BorderPolicy(a, q, bv) ==
    IF q \in Coords(a.shape) THEN q \in a.on ELSE bv # 0

(***************************************************************************)
(* _nd_image.binary_erosion: one full kernel pass.  Without invert a voxel *)
(* is set iff every structural neighbour is set; with invert the roles of  *)
(* true and false (and of the border value) are exchanged, so a voxel is   *)
(* set iff some structural neighbour is set.  A masked-off voxel copies    *)
(* the input.  Returns the array written, whether any voxel changed and,   *)
(* when coords = 1, the coordinates that changed.  centre is the caller's  *)
(* center_is_true, which the contract gives no effect on the result.       *)
(***************************************************************************)
ErodePoint(a, offsets, bv, inv, p) ==
    IF inv = 0
    THEN \A o \in offsets : BorderPolicy(a, Plus(p, o), bv)
    ELSE \E o \in offsets : BorderPolicy(a, Plus(p, o), bv)

MaskValue(msk, p) == IF msk = NoArray THEN TRUE ELSE p \in msk.on

nd_image_binary_erosion(a, struct, msk, bv, orig, inv, centre, coords) ==
    LET offsets == NeighborOffsetTable(struct, orig)
        out == {p \in Coords(a.shape) :
                   IF MaskValue(msk, p) THEN ErodePoint(a, offsets, bv, inv, p)
                   ELSE p \in a.on}
        diff == (out \ a.on) \cup (a.on \ out)
    IN  [output |-> out,
         changed |-> diff # {},
         coordinate_list |-> IF coords = 1 THEN diff ELSE {}]

(***************************************************************************)
(* _nd_image.binary_erosion2: worklist propagation, in place.  Each pass   *)
(* visits the voxels that changed in the previous pass and flips every     *)
(* in-range, masked-on structural neighbour that still holds the "true"    *)
(* value (set for erosion, clear for dilation); the flipped voxels are the *)
(* next worklist.  A positive niter is the number of passes left; a        *)
(* negative niter (iterations < 1 in the caller) means no budget.          *)
(***************************************************************************)
RECURSIVE nd_image_binary_erosion2(_, _, _, _, _, _, _, _)
nd_image_binary_erosion2(shape, on, struct, msk, niter, orig, inv, list) ==
    IF list = {} \/ niter = 0 THEN on
    ELSE LET offsets == NeighborOffsetTable(struct, orig)
             hit == {q \in Coords(shape) :
                        /\ \E p \in list : \E o \in offsets : q = Plus(p, o)
                        /\ MaskValue(msk, q)
                        /\ IF inv = 0 THEN q \in on ELSE q \notin on}
             next == IF inv = 0 THEN on \ hit ELSE on \cup hit
         IN  nd_image_binary_erosion2(shape, next, struct, msk,
                                      IF niter < 1 THEN niter ELSE niter - 1,
                                      orig, inv, hit)

(***************************************************************************)
(* Helpers of morphology.py.                                               *)
(***************************************************************************)
\* _center_is_true: structure[shape // 2 + origin]; a negative index counts
\* from the end (numpy indexing), an index out of range raises IndexError.
CenterIndex(struct, orig) ==
    [i \in DOMAIN struct.shape |->
        LET c == orig[i] + (struct.shape[i] \div 2)
        IN  IF c < 0 THEN c + struct.shape[i] ELSE c]

CenterInRange(struct, orig) ==
    /\ DOMAIN orig = DOMAIN struct.shape
    /\ \A i \in DOMAIN struct.shape :
          /\ orig[i] + (struct.shape[i] \div 2) >= -struct.shape[i]
          /\ orig[i] + (struct.shape[i] \div 2) < struct.shape[i]

\* (mutant) the cell at shape // 2 is tested, whatever the origin
_center_is_true_at_middle(struct, orig) ==
    [i \in DOMAIN struct.shape |-> struct.shape[i] \div 2] \in struct.on

_center_is_true(struct, orig) == CenterIndex(struct, orig) \in struct.on

\* structure[tuple([slice(None, None, -1)] * structure.ndim)]
ReflectStructure(struct) ==
    [struct EXCEPT !.on =
        {[i \in DOMAIN idx |-> struct.shape[i] - 1 - idx[i]] : idx \in struct.on}]

\* origin[ii] = -origin[ii]; if not structure.shape[ii] & 1: origin[ii] -= 1
ReflectOrigin(struct, orig) ==
    [i \in DOMAIN orig |->
        IF struct.shape[i] % 2 = 0 THEN -orig[i] - 1 ELSE -orig[i]]

(***************************************************************************)
(* The argument checks of _binary_erosion, in the order the code makes     *)
(* them; the value is the exception raised, or None.                       *)
(***************************************************************************)
\* (mutant) the mask's shape is not compared with the input's
ArgumentErrorWithoutMaskCheck(inp, struct, msk, out, orig) ==
    IF inp.dtype = "complex" THEN "TypeError: Complex type not supported"
    ELSE IF Rank(struct) # Rank(inp)
    THEN "RuntimeError: structure and input must have same dimensionality"
    ELSE IF SeqProduct(struct.shape) < 1
    THEN "RuntimeError: structure must not be empty"
    ELSE IF out # NoArray /\ out.dtype = "complex"
    THEN "TypeError: Complex output type not supported"
    ELSE IF out # NoArray /\ out.shape # inp.shape
    THEN "RuntimeError: output shape not correct"
    ELSE None

ArgumentError(inp, struct, msk, out, orig) ==
    IF inp.dtype = "complex" THEN "TypeError: Complex type not supported"
    ELSE IF Rank(struct) # Rank(inp)
    THEN "RuntimeError: structure and input must have same dimensionality"
    ELSE IF SeqProduct(struct.shape) < 1
    THEN "RuntimeError: structure must not be empty"
    ELSE IF msk # NoArray /\ msk.shape # inp.shape
    THEN "RuntimeError: mask and input must have equal sizes"
    ELSE IF ~CenterInRange(struct, orig)
    THEN "IndexError: index out of bounds"
    ELSE IF out # NoArray /\ out.dtype = "complex"
    THEN "TypeError: Complex output type not supported"
    ELSE IF out # NoArray /\ out.shape # inp.shape
    THEN "RuntimeError: output shape not correct"
    ELSE None

(***************************************************************************)
(* _binary_erosion as a function of its arguments, for a call that passes  *)
(* no output array: the value is [ok, why, array].  A repeat-until-stable  *)
(* loop that revisits an array it has produced before never ends; that is  *)
(* reported as why = "diverges".                                           *)
(***************************************************************************)
Returns(a) == [ok |-> TRUE, why |-> "returns", array |-> a]

Fails(why) == [ok |-> FALSE, why |-> why, array |-> NoArray]

\* (mutant) the loop also stops a counted iteration when nothing changed
LoopConditionStopsWhenStable(iters, i, chg) ==
    ((i < iters) \/ (iters < 1)) /\ chg

\* while (ii < iterations) or (iterations < 1) and changed
LoopCondition(iters, i, chg) == (i < iters) \/ ((iters < 1) /\ chg)

RECURSIVE BruteForceLoop(_, _, _, _, _)
BruteForceLoop(k, last, chg, i, seen) ==
    IF ~LoopCondition(k.iterations, i, chg) THEN Returns(last)
    ELSE LET r == nd_image_binary_erosion(last, k.structure, k.mask,
                      k.border_value, k.origin, k.invert, k.cit, 0)
             next == BoolArray(last.shape, r.output)
         IN  IF k.iterations < 1 /\ r.changed /\ next \in seen
             THEN Fails("diverges")
             ELSE BruteForceLoop(k, next, r.changed, i + 1, seen \cup {next})

_binary_erosion(inp, struct, iters, msk, bv, orig, inv, bf) ==
    LET err == ArgumentError(inp, struct, msk, NoArray, orig)
        center == _center_is_true(struct, orig)
        first == nd_image_binary_erosion(inp, struct, msk, bv, orig, inv,
                                         center, 0)
        k == [structure |-> struct, mask |-> msk, border_value |-> bv,
              origin |-> orig, invert |-> inv, cit |-> center,
              iterations |-> iters]
    IN  IF err # None THEN Fails(err)
        ELSE IF iters = 1 THEN Returns(BoolArray(inp.shape, first.output))
        ELSE IF center /\ ~bf
        THEN LET wl == nd_image_binary_erosion(inp, struct, msk, bv, orig,
                                               inv, center, 1)
             IN  Returns(BoolArray(inp.shape,
                     nd_image_binary_erosion2(inp.shape, wl.output,
                         ReflectStructure(struct), msk, iters - 1,
                         ReflectOrigin(struct, orig), inv,
                         wl.coordinate_list)))
        ELSE BruteForceLoop(k, BoolArray(inp.shape, first.output),
                            first.changed, 1,
                            {BoolArray(inp.shape, first.output)})

binary_erosion(inp, struct, iters, msk, bv, orig, bf) ==
    _binary_erosion(inp, struct, iters, msk, bv, orig, 0, bf)

binary_dilation(inp, struct, iters, msk, bv, orig, bf) ==
    IF Rank(struct) < Len(orig) THEN Fails("IndexError: tuple index out of range")
    ELSE _binary_erosion(inp, ReflectStructure(struct), iters, msk, bv,
                         ReflectOrigin(struct, orig), 1, bf)

binary_opening(inp, struct, iters, orig) ==
    LET tmp == binary_erosion(inp, struct, iters, NoArray, 0, orig, FALSE)
    IN  IF ~tmp.ok THEN tmp
        ELSE binary_dilation(tmp.array, struct, iters, NoArray, 0, orig, FALSE)

binary_closing(inp, struct, iters, orig) ==
    LET tmp == binary_dilation(inp, struct, iters, NoArray, 0, orig, FALSE)
    IN  IF ~tmp.ok THEN tmp
        ELSE binary_erosion(tmp.array, struct, iters, NoArray, 0, orig, FALSE)

(***************************************************************************)
(* The calls the model makes.                                              *)
(***************************************************************************)
ValidOrigins(shape) ==
    {o \in [DOMAIN shape -> (-SeqMax(shape))..SeqMax(shape)] :
        \A i \in DOMAIN shape :
            /\ (shape[i] \div 2) + o[i] >= 0
            /\ (shape[i] \div 2) + o[i] < shape[i]}

Iterations == (-1)..MaxIter

InputShape1 == <<MaxLen>>

InputShape2 == <<2, 2>>

StructureShapes1 == {<<1>>, <<2>>, <<3>>}

Structures(shapes) == UNION {AllArrays(sh) : sh \in shapes}

JunkBuffer(shape) == Ones(shape)

Call(f, inp, struct, iters, msk, out, bv, orig, bf) ==
    [func |-> f, input |-> inp, structure |-> struct, iterations |-> iters,
     mask |-> msk, output |-> out, border_value |-> bv, origin |-> orig,
     brute_force |-> bf]

\* one-dimensional calls returning a new array, without a mask
Calls1(c) ==
    \E f \in {"binary_erosion", "binary_dilation"},
       inp \in AllArrays(InputShape1),
       st \in Structures(StructureShapes1),
       it \in Iterations \ {-1},
       bv \in {0, 1},
       bf \in BOOLEAN :
        \E o \in ValidOrigins(st.shape) :
            c = Call(f, inp, st, it, NoArray, NoArray, bv, o, bf)

\* one-dimensional calls returning a new array, with every mask
CallsMasked(c) ==
    \E f \in {"binary_erosion", "binary_dilation"},
       inp \in AllArrays(InputShape1),
       st \in Structures(StructureShapes1),
       it \in {0, 2},
       msk \in AllArrays(InputShape1),
       bv \in {0, 1},
       bf \in BOOLEAN :
        \E o \in ValidOrigins(st.shape) :
            c = Call(f, inp, st, it, msk, NoArray, bv, o, bf)

\* one-dimensional calls writing into the caller's array
CallsOut(c) ==
    \E f \in {"binary_erosion", "binary_dilation"},
       inp \in AllArrays(InputShape1),
       st \in Structures(StructureShapes1),
       it \in Iterations,
       msk \in {NoArray, BoolArray(InputShape1, {<<1>>})},
       bv \in {0, 1},
       bf \in BOOLEAN :
        \E o \in ValidOrigins(st.shape) :
            c = Call(f, inp, st, it, msk, JunkBuffer(InputShape1), bv, o, bf)

\* two-dimensional calls
Calls2(c) ==
    \E f \in {"binary_erosion", "binary_dilation"},
       inp \in AllArrays(InputShape2),
       st \in AllArrays(<<2, 2>>) \cup {Ones(<<3, 3>>),
                BoolArray(<<3, 3>>, {<<0, 1>>, <<1, 0>>, <<1, 1>>, <<1, 2>>, <<2, 1>>})},
       it \in {0, 1, 2},
       msk \in {NoArray, BoolArray(InputShape2, {<<0, 0>>, <<1, 1>>, <<0, 1>>})},
       bv \in {0, 1},
       o \in {<<0, 0>>, <<0, -1>>},
       bf \in BOOLEAN :
        c = Call(f, inp, st, it, msk, NoArray, bv, o, bf)

\* openings and closings
CallsOpenClose(c) ==
    \E f \in {"binary_opening", "binary_closing"},
       inp \in AllArrays(InputShape1),
       st \in Structures(StructureShapes1),
       it \in Iterations \ {-1} :
        \E o \in ValidOrigins(st.shape) :
            c = Call(f, inp, st, it, NoArray, NoArray, 0, o, FALSE)

\* calls with an argument the checks reject
CallsInvalid(c) ==
    \/ \E f \in {"binary_erosion", "binary_dilation"},
          inp \in {Ones(InputShape1), [Ones(InputShape1) EXCEPT !.dtype = "complex"]},
          st \in {Ones(<<3>>), Ones(<<3, 3>>), Zeros(<<0>>)},
          it \in {0, 1, 2},
          msk \in {NoArray, Ones(InputShape1), Ones(<<MaxLen + 1>>)},
          out \in {JunkBuffer(InputShape1),
                   [JunkBuffer(InputShape1) EXCEPT !.dtype = "complex"],
                   JunkBuffer(<<MaxLen + 1>>)} :
            c = Call(f, inp, st, it, msk, out, 0, <<0>>, FALSE)
    \/ \E it \in {0, 1, 2} :
            c = Call("binary_dilation", Ones(InputShape2), Ones(<<3>>), it,
                     NoArray, JunkBuffer(InputShape2), 0, <<0, 0>>, FALSE)

(***************************************************************************)
(* The state machine of one top-level call.                                *)
(***************************************************************************)
IICap == MaxIter + 1

Stages(f) == IF f \in {"binary_opening", "binary_closing"} THEN 2 ELSE 1

EmptyHeap(c) ==
    [out |-> IF c.output = NoArray THEN {} ELSE c.output.on,
     new |-> {}, t1 |-> {}, t2 |-> {}]

\* (mutant) the second call repeats the function of the first
CurrentCallRepeatsFirst ==
    IF Stages(call.func) = 1 THEN call
    ELSE [call EXCEPT
            !.func = IF call.func = "binary_opening"
                     THEN "binary_erosion" ELSE "binary_dilation",
            !.input = IF stage = 1 THEN call.input ELSE input,
            !.output = IF stage = 1 THEN NoArray ELSE call.output]

\* the binary_erosion / binary_dilation call the top-level function makes now
CurrentCall ==
    IF Stages(call.func) = 1 THEN call
    ELSE [call EXCEPT
            !.func = IF (call.func = "binary_opening") = (stage = 1)
                     THEN "binary_erosion" ELSE "binary_dilation",
            !.input = IF stage = 1 THEN call.input ELSE input,
            !.output = IF stage = 1 THEN NoArray ELSE call.output]

Start ==
    /\ stage = 1
    /\ pc = "call"
    /\ input = NoArray /\ structure = NoArray /\ iterations = 0
    /\ mask = NoArray /\ output = None /\ border_value = 0 /\ origin = <<>>
    /\ invert = 0 /\ brute_force = FALSE
    /\ cit = FALSE /\ return_value = None
    /\ tmp_in = None /\ tmp_out = None /\ changed = FALSE /\ ii = 0
    /\ coordinate_list = {}
    /\ heap = EmptyHeap(call)
    /\ result = None
    /\ error = None

Init ==
    /\ \/ Calls1(call)
       \/ CallsMasked(call)
       \/ CallsOut(call)
       \/ Calls2(call)
       \/ CallsOpenClose(call)
       \/ CallsInvalid(call)
    /\ Start

Locals == <<cit, return_value, tmp_in, tmp_out, changed, ii, coordinate_list>>

EnterBinaryErosion(c, struct, orig, inv) ==
    /\ input' = c.input
    /\ structure' = struct
    /\ iterations' = c.iterations
    /\ mask' = c.mask
    /\ output' = IF c.output = NoArray THEN None ELSE "out"
    /\ border_value' = c.border_value
    /\ origin' = orig
    /\ invert' = inv
    /\ brute_force' = c.brute_force
    /\ pc' = "_binary_erosion"
    /\ UNCHANGED <<call, stage, Locals, heap, result, error>>

\* (mutant) binary_erosion passes invert = 1
BinaryErosionInverted ==
    /\ pc = "call"
    /\ CurrentCall.func = "binary_erosion"
    /\ EnterBinaryErosion(CurrentCall, CurrentCall.structure,
                          CurrentCall.origin, 1)

\* binary_erosion: hands its arguments to _binary_erosion with invert = 0
BinaryErosion ==
    /\ pc = "call"
    /\ CurrentCall.func = "binary_erosion"
    /\ EnterBinaryErosion(CurrentCall, CurrentCall.structure,
                          CurrentCall.origin, 0)

\* (mutant) binary_dilation negates the origin without the adjustment for
\* axes of even length
BinaryDilationEvenAxisNotAdjusted ==
    /\ pc = "call"
    /\ CurrentCall.func = "binary_dilation"
    /\ LET c == CurrentCall IN
       IF Rank(c.structure) < Len(c.origin)
       THEN /\ pc' = "error"
            /\ error' = "IndexError: tuple index out of range"
            /\ UNCHANGED <<call, stage, input, structure, iterations, mask,
                           output, border_value, origin, invert, brute_force,
                           Locals, heap, result>>
       ELSE EnterBinaryErosion(c, ReflectStructure(c.structure),
                               [i \in DOMAIN c.origin |-> -c.origin[i]], 1)

\* binary_dilation: reflects the structure, negates the origin (one less on
\* an axis of even length) and calls _binary_erosion with invert = 1
BinaryDilation ==
    /\ pc = "call"
    /\ CurrentCall.func = "binary_dilation"
    /\ LET c == CurrentCall IN
       IF Rank(c.structure) < Len(c.origin)
       THEN /\ pc' = "error"
            /\ error' = "IndexError: tuple index out of range"
            /\ UNCHANGED <<call, stage, input, structure, iterations, mask,
                           output, border_value, origin, invert, brute_force,
                           Locals, heap, result>>
       ELSE EnterBinaryErosion(c, ReflectStructure(c.structure),
                               ReflectOrigin(c.structure, c.origin), 1)

OutputArray == IF output = None THEN NoArray ELSE call.output

\* _binary_erosion up to the choice of strategy: the argument checks,
\* _center_is_true and _get_output
CheckArguments ==
    /\ pc = "_binary_erosion"
    /\ LET err == ArgumentError(input, structure, mask, OutputArray, origin) IN
       IF err # None
       THEN /\ pc' = "error"
            /\ error' = err
            /\ UNCHANGED <<output, cit, return_value, heap>>
       ELSE /\ pc' = "dispatch"
            /\ cit' = _center_is_true(structure, origin)
            /\ output' = IF output = None THEN "new" ELSE output
            /\ return_value' = IF output = None THEN "new" ELSE None
            /\ heap' = IF output = None THEN [heap EXCEPT !.new = {}] ELSE heap
            /\ error' = error
    /\ UNCHANGED <<call, stage, input, structure, iterations, mask,
                   border_value, origin, invert, brute_force, tmp_in, tmp_out,
                   changed, ii, coordinate_list, result>>

\* iterations == 1: one kernel pass into output
SinglePass ==
    /\ pc = "dispatch"
    /\ iterations = 1
    /\ LET r == nd_image_binary_erosion(input, structure, mask, border_value,
                                        origin, invert, cit, 0) IN
       /\ heap' = [heap EXCEPT ![output] = r.output]
    /\ result' = return_value
    /\ pc' = "done"
    /\ UNCHANGED <<call, stage, input, structure, iterations, mask, output,
                   border_value, origin, invert, brute_force, Locals, error>>

\* cit and not brute_force: a kernel pass that records the changed voxels,
\* then binary_erosion2 with the reflected structure and iterations - 1
Worklist ==
    /\ pc = "dispatch"
    /\ iterations # 1
    /\ cit /\ ~brute_force
    /\ LET r == nd_image_binary_erosion(input, structure, mask, border_value,
                                        origin, invert, cit, 1)
           struct2 == ReflectStructure(structure)
           origin2 == ReflectOrigin(structure, origin) IN
       /\ changed' = r.changed
       /\ coordinate_list' = r.coordinate_list
       /\ structure' = struct2
       /\ origin' = origin2
       /\ heap' = [heap EXCEPT ![output] =
                      nd_image_binary_erosion2(input.shape, r.output, struct2,
                          mask, iterations - 1, origin2, invert,
                          r.coordinate_list)]
    /\ result' = return_value
    /\ pc' = "done"
    /\ UNCHANGED <<call, stage, input, iterations, mask, output, border_value,
                   invert, brute_force, cit, return_value, tmp_in, tmp_out, ii,
                   error>>

\* brute force: the two buffers, their exchange for an even iterations, and
\* the first kernel pass
BruteForceFirst ==
    /\ pc = "dispatch"
    /\ iterations # 1
    /\ ~(cit /\ ~brute_force)
    /\ LET a == "t1"
           b == IF return_value = None THEN output ELSE "t2"
           swap == iterations % 2 = 0
           tin == IF swap THEN b ELSE a
           tout == IF swap THEN a ELSE b
           h == IF return_value = None THEN [heap EXCEPT !.t1 = {}]
                ELSE [heap EXCEPT !.t1 = {}, !.t2 = {}]
           r == nd_image_binary_erosion(input, structure, mask, border_value,
                                        origin, invert, cit, 0) IN
       /\ tmp_in' = tin
       /\ tmp_out' = tout
       /\ heap' = [h EXCEPT ![tout] = r.output]
       /\ changed' = r.changed
    /\ ii' = 1
    /\ pc' = "loop"
    /\ UNCHANGED <<call, stage, input, structure, iterations, mask, output,
                   border_value, origin, invert, brute_force, cit, return_value,
                   coordinate_list, result, error>>

\* (mutant) the buffers are not exchanged: every pass reads tmp_in and
\* writes tmp_out
BruteForcePassWithoutExchange ==
    /\ pc = "loop"
    /\ LoopCondition(iterations, ii, changed)
    /\ LET r == nd_image_binary_erosion(BoolArray(input.shape, heap[tmp_in]),
                    structure, mask, border_value, origin, invert, cit, 0) IN
       /\ heap' = [heap EXCEPT ![tmp_out] = r.output]
       /\ changed' = r.changed
    /\ ii' = IF iterations < 1 /\ ii >= IICap THEN ii ELSE ii + 1
    /\ UNCHANGED <<call, stage, pc, input, structure, iterations, mask, output,
                   border_value, origin, invert, brute_force, cit, return_value,
                   tmp_in, tmp_out, coordinate_list, result, error>>

\* one turn of the while loop: exchange the buffers, run a kernel pass from
\* tmp_in into tmp_out
BruteForcePass ==
    /\ pc = "loop"
    /\ LoopCondition(iterations, ii, changed)
    /\ LET r == nd_image_binary_erosion(BoolArray(input.shape, heap[tmp_out]),
                    structure, mask, border_value, origin, invert, cit, 0) IN
       /\ heap' = [heap EXCEPT ![tmp_in] = r.output]
       /\ changed' = r.changed
    /\ tmp_in' = tmp_out
    /\ tmp_out' = tmp_in
    /\ ii' = IF iterations < 1 /\ ii >= IICap THEN ii ELSE ii + 1
    /\ UNCHANGED <<call, stage, pc, input, structure, iterations, mask, output,
                   border_value, origin, invert, brute_force, cit, return_value,
                   coordinate_list, result, error>>

\* the loop ends: return tmp_out when _get_output allocated the output
BruteForceReturn ==
    /\ pc = "loop"
    /\ ~LoopCondition(iterations, ii, changed)
    /\ result' = IF return_value # None THEN tmp_out ELSE None
    /\ pc' = "done"
    /\ UNCHANGED <<call, stage, input, structure, iterations, mask, output,
                   border_value, origin, invert, brute_force, Locals, heap,
                   error>>

\* binary_opening / binary_closing: the first call's result is the input of
\* the second
SecondCall ==
    /\ pc = "done"
    /\ stage < Stages(call.func)
    /\ stage' = stage + 1
    /\ pc' = "call"
    /\ input' = BoolArray(input.shape, heap[result])
    /\ heap' = EmptyHeap(call)
    /\ structure' = NoArray /\ iterations' = 0 /\ mask' = NoArray
    /\ output' = None /\ border_value' = 0 /\ origin' = <<>>
    /\ invert' = 0 /\ brute_force' = FALSE
    /\ cit' = FALSE /\ return_value' = None
    /\ tmp_in' = None /\ tmp_out' = None /\ changed' = FALSE /\ ii' = 0
    /\ coordinate_list' = {}
    /\ result' = None
    /\ UNCHANGED <<call, error>>

Next ==
    \/ BinaryErosion
    \/ BinaryDilation
    \/ CheckArguments
    \/ SinglePass
    \/ Worklist
    \/ BruteForceFirst
    \/ BruteForcePass
    \/ BruteForceReturn
    \/ SecondCall

Spec == Init /\ [][Next]_vars

(***************************************************************************)
(* The same machine on fewer calls, with the fairness of a synchronous     *)
(* call: the interpreter keeps executing the call until it returns or      *)
(* raises.                                                                 *)
(***************************************************************************)
CallsLive(c) ==
    \E f \in {"binary_erosion", "binary_dilation"},
       inp \in AllArrays(InputShape1),
       st \in Structures(StructureShapes1),
       it \in {0, 2},
       msk \in {NoArray, BoolArray(InputShape1, {<<1>>})},
       bv \in {0, 1},
       bf \in BOOLEAN :
        \E o \in ValidOrigins(st.shape) :
            c = Call(f, inp, st, it, msk, NoArray, bv, o, bf)

InitLive ==
    /\ \/ CallsLive(call)
       \/ CallsOpenClose(call)
       \/ CallsInvalid(call)
    /\ Start

LiveSpec == InitLive /\ [][Next]_vars /\ WF_vars(Next)

(***************************************************************************)
(* What a finished call delivered.                                         *)
(***************************************************************************)
Returned == pc = "done" /\ stage = Stages(call.func)

\* the caller's array when one was passed, else the returned array
Delivered ==
    BoolArray(call.input.shape,
              IF call.output # NoArray THEN heap.out ELSE heap[result])

(***************************************************************************)
(* Vocabulary of the properties.                                           *)
(***************************************************************************)
IsErosionOrDilation == call.func \in {"binary_erosion", "binary_dilation"}

\* the cell at index shape // 2 + origin of the caller's structure
CentreCell(c) ==
    [i \in DOMAIN c.structure.shape |-> (c.structure.shape[i] \div 2) + c.origin[i]]

CentreOn(c) == CentreCell(c) \in c.structure.on

\* the single-iteration operator of call c applied to array x
SingleIteration(c, x) ==
    IF c.func = "binary_erosion"
    THEN binary_erosion(x, c.structure, 1, c.mask, c.border_value, c.origin,
                        c.brute_force)
    ELSE binary_dilation(x, c.structure, 1, c.mask, c.border_value, c.origin,
                         c.brute_force)

RECURSIVE Iterate(_, _, _)
Iterate(c, x, n) ==
    IF n = 0 THEN x ELSE Iterate(c, SingleIteration(c, x).array, n - 1)

\* the value at p + (cell - centre), the border value outside the array
NeighbourIsSet(c, p, cell) ==
    LET q == [i \in DOMAIN p |-> p[i] + cell[i] - CentreCell(c)[i]]
    IN  IF \A i \in DOMAIN q : q[i] >= 0 /\ q[i] < c.input.shape[i]
        THEN q \in c.input.on
        ELSE c.border_value # 0

(***************************************************************************)
(* C1: for iterations == 1 and no mask, binary_erosion sets output[p] iff  *)
(* input[p + o] is set for every offset o = cell - (shape // 2 + origin)   *)
(* of a true structure cell, a neighbour outside the array counting as set *)
(* iff border_value is nonzero.                                            *)
(***************************************************************************)
C1_ErosionSinglePass ==
    (Returned /\ call.func = "binary_erosion" /\ call.iterations = 1
        /\ call.mask = NoArray)
    => \A p \in Coords(call.input.shape) :
          (p \in Delivered.on) <=>
              (\A cell \in call.structure.on : NeighbourIsSet(call, p, cell))

C1_Witness ==
    /\ Returned /\ call.func = "binary_erosion" /\ call.iterations = 1
    /\ call.mask = NoArray /\ call.border_value = 1
    /\ Rank(call.input) = 2
    /\ call.origin = <<0, -1>>
    /\ Cardinality(call.structure.on) = 2
    /\ Cardinality(Delivered.on) = 1

(***************************************************************************)
(* C2 as claimed: binary_dilation(X, S) equals NOT binary_erosion(NOT X,   *)
(* reflect(S)) with the same origin and the default border_value in both   *)
(* calls.                                                                  *)
(***************************************************************************)
C2_DualitySameOriginAndBorder ==
    (Returned /\ call.func = "binary_dilation" /\ call.iterations = 1
        /\ call.mask = NoArray /\ call.border_value = 0)
    => LET e == binary_erosion(LogicalNot(call.input),
                    ReflectStructure(call.structure), 1, NoArray, 0,
                    call.origin, FALSE)
       IN  e.ok /\ Delivered = LogicalNot(e.array)

(***************************************************************************)
(* C2 amended: binary_dilation(X, S, origin = o) with border_value 0       *)
(* equals NOT binary_erosion(NOT X, reflect(S)) when the erosion is given  *)
(* border_value 1 and the origin -o, less one on axes of even length.      *)
(***************************************************************************)
C2_Duality ==
    (Returned /\ call.func = "binary_dilation" /\ call.iterations = 1
        /\ call.mask = NoArray /\ call.border_value = 0)
    => LET o2 == [i \in DOMAIN call.origin |->
                    IF call.structure.shape[i] % 2 = 0
                    THEN -call.origin[i] - 1 ELSE -call.origin[i]]
           e == binary_erosion(LogicalNot(call.input),
                    ReflectStructure(call.structure), 1, NoArray, 1, o2, FALSE)
       IN  e.ok /\ Delivered = LogicalNot(e.array)

C2_Witness ==
    /\ Returned /\ call.func = "binary_dilation" /\ call.iterations = 1
    /\ call.mask = NoArray /\ call.border_value = 0
    /\ call.structure.shape = <<2>> /\ call.origin = <<-1>>
    /\ call.structure.on = {<<1>>}
    /\ call.input.on = {<<0>>, <<1>>}
    /\ Delivered.on = {<<1>>, <<2>>}

(***************************************************************************)
(* C3: for iterations = n >= 2 on the brute-force path (brute_force set,   *)
(* or centre cell off) exactly n kernel passes run and the result is the   *)
(* single-iteration operator applied n times in sequence; the loop does    *)
(* not stop early.                                                         *)
(***************************************************************************)
C3_BruteForceIteratesNTimes ==
    (Returned /\ IsErosionOrDilation /\ call.iterations >= 2
        /\ (call.brute_force \/ ~CentreOn(call)))
    => /\ ii = call.iterations
       /\ Delivered = Iterate(call, call.input, call.iterations)

C3_Witness ==
    /\ Returned /\ IsErosionOrDilation /\ call.iterations = 3
    /\ call.brute_force /\ CentreOn(call)
    /\ ii = 3
    /\ Delivered # Iterate(call, call.input, 2)
    /\ Delivered = Iterate(call, call.input, 3)

(***************************************************************************)
(* C4: every call of binary_erosion or binary_dilation with iterations < 1 *)
(* terminates: the repeat-until-no-change loop eventually runs a pass that *)
(* reports no change.                                                      *)
(***************************************************************************)
C4_FixedPointIterationTerminates ==
    (IsErosionOrDilation /\ call.iterations < 1) ~> (Returned \/ pc = "error")

(***************************************************************************)
(* C5: when a call with iterations < 1 returns, the result R is a fixed    *)
(* point of the single-iteration operator and is the k-th iterate of the   *)
(* input for the least k at which iterate k equals iterate k-1.            *)
(***************************************************************************)
RECURSIVE FirstStable(_, _)
FirstStable(c, x) ==
    LET y == SingleIteration(c, x).array
    IN  IF y = x THEN x ELSE FirstStable(c, y)

C5_FixedPointResult ==
    (Returned /\ IsErosionOrDilation /\ call.iterations < 1
        /\ call.structure.on # {})
    => /\ SingleIteration(call, Delivered).array = Delivered
       /\ Delivered = FirstStable(call, call.input)

\* C5 for the calls that pass no output array
C5_FixedPointResultOfReturnedArray ==
    (Returned /\ IsErosionOrDilation /\ call.iterations < 1
        /\ call.output = NoArray)
    => /\ SingleIteration(call, Delivered).array = Delivered
       /\ Delivered = FirstStable(call, call.input)

(***************************************************************************)
(* C6: for a structure whose centre cell is true and iterations other than *)
(* 1, the worklist path (brute_force = False) and the brute-force path     *)
(* (brute_force = True) deliver identical output arrays.                   *)
(***************************************************************************)
OtherPath(c) ==
    IF c.func = "binary_erosion"
    THEN binary_erosion(c.input, c.structure, c.iterations, c.mask,
                        c.border_value, c.origin, ~c.brute_force)
    ELSE binary_dilation(c.input, c.structure, c.iterations, c.mask,
                         c.border_value, c.origin, ~c.brute_force)

C6_WorklistEqualsBruteForce ==
    (Returned /\ IsErosionOrDilation /\ call.iterations # 1 /\ CentreOn(call))
    => Delivered = OtherPath(call).array

\* C6 for the calls that pass no output array
C6_WorklistEqualsBruteForceReturnedArray ==
    (Returned /\ IsErosionOrDilation /\ call.iterations # 1 /\ CentreOn(call)
        /\ call.output = NoArray)
    => Delivered = OtherPath(call).array

(***************************************************************************)
(* C7 as claimed: for every structure, origin and n >= 1 the foreground of *)
(* binary_erosion(X, S, iterations = n + 1) is a subset of that of         *)
(* binary_erosion(X, S, iterations = n), and the foreground of             *)
(* binary_dilation(X, S, iterations = n + 1) a superset of that of         *)
(* binary_dilation(X, S, iterations = n).                                  *)
(***************************************************************************)
OneMoreIteration(c) ==
    IF c.func = "binary_erosion"
    THEN binary_erosion(c.input, c.structure, c.iterations + 1, c.mask,
                        c.border_value, c.origin, c.brute_force)
    ELSE binary_dilation(c.input, c.structure, c.iterations + 1, c.mask,
                         c.border_value, c.origin, c.brute_force)

MonotoneStep(c, now, more) ==
    IF c.func = "binary_erosion" THEN more.on \subseteq now.on
    ELSE now.on \subseteq more.on

C7_MonotoneForEveryStructure ==
    (Returned /\ IsErosionOrDilation /\ call.iterations >= 1
        /\ call.structure.on # {})
    => MonotoneStep(call, Delivered, OneMoreIteration(call).array)

(***************************************************************************)
(* C7 amended: the same, for every structure whose centre cell (index      *)
(* shape // 2 + origin) is true.                                           *)
(***************************************************************************)
C7_MonotoneWhenCentreOn ==
    (Returned /\ IsErosionOrDilation /\ call.iterations >= 1
        /\ CentreOn(call))
    => MonotoneStep(call, Delivered, OneMoreIteration(call).array)

C7_Witness ==
    /\ Returned /\ call.func = "binary_erosion" /\ call.iterations = 2
    /\ CentreOn(call)
    /\ Delivered.on # {}
    /\ OneMoreIteration(call).array.on # Delivered.on
    /\ OneMoreIteration(call).array.on \subseteq Delivered.on

(***************************************************************************)
(* C8: binary_opening(binary_opening(X, S), S) = binary_opening(X, S) and  *)
(* binary_closing(binary_closing(X, S), S) = binary_closing(X, S), for     *)
(* every structure, origin and iterations value.                           *)
(***************************************************************************)
Again(c, x) ==
    IF c.func = "binary_opening"
    THEN binary_opening(x, c.structure, c.iterations, c.origin)
    ELSE binary_closing(x, c.structure, c.iterations, c.origin)

C8_OpeningClosingIdempotent ==
    (Returned /\ ~IsErosionOrDilation /\ call.structure.on # {})
    => LET again == Again(call, Delivered)
       IN  again.ok => again.array = Delivered

C8_Witness ==
    /\ Returned /\ call.func = "binary_opening" /\ call.iterations = 1
    /\ Cardinality(call.structure.on) = 2
    /\ Delivered.on # {}
    /\ Delivered # call.input
    /\ Again(call, Delivered).ok

(***************************************************************************)
(* C9: with a mask, every position p with mask[p] false has final          *)
(* output[p] equal to the truth value of input[p], for every iterations    *)
(* value and on both paths.                                                *)
(***************************************************************************)
C9_MaskFrame ==
    (Returned /\ IsErosionOrDilation /\ call.mask # NoArray
        /\ call.structure.on # {})
    => \A p \in Coords(call.input.shape) \ call.mask.on :
          (p \in Delivered.on) <=> (p \in call.input.on)

\* C9 for the calls that pass no output array
C9_MaskFrameOfReturnedArray ==
    (Returned /\ IsErosionOrDilation /\ call.mask # NoArray
        /\ call.output = NoArray)
    => \A p \in Coords(call.input.shape) \ call.mask.on :
          (p \in Delivered.on) <=> (p \in call.input.on)

(***************************************************************************)
(* C10: a structure whose rank differs from the input's, a mask whose      *)
(* shape differs from the input's, a complex input or a complex output    *)
(* array makes binary_erosion and binary_dilation raise before any kernel  *)
(* pass runs, so the caller's output array is left unmodified.             *)
(***************************************************************************)
Rejected(c) ==
    \/ Rank(c.structure) # Rank(c.input)
    \/ c.mask # NoArray /\ c.mask.shape # c.input.shape
    \/ c.input.dtype = "complex"
    \/ c.output # NoArray /\ c.output.dtype = "complex"

C10_ErrorsBeforeAnyPass ==
    (IsErosionOrDilation /\ Rejected(call))
    => /\ pc \in {"call", "_binary_erosion", "error"}
       /\ pc = "error" => error # None
       /\ heap = EmptyHeap(call)
       /\ result = None

C10_Witness ==
    /\ IsErosionOrDilation /\ Rejected(call)
    /\ call.input.dtype = "bool" /\ Rank(call.structure) = Rank(call.input)
    /\ call.output # NoArray /\ call.output.dtype = "bool"
    /\ pc = "error"
    /\ error = "RuntimeError: mask and input must have equal sizes"
    /\ heap.out = call.output.on

(***************************************************************************)
(* C11: binary_erosion and binary_dilation report an error whenever the    *)
(* structuring element has no true entries, a structure of positive size   *)
(* whose cells are all false included: such a call never returns an array. *)
(***************************************************************************)
C11_AllFalseStructureRejected ==
    (IsErosionOrDilation /\ call.structure.on = {})
    => /\ ~Returned
       /\ pc \notin {"dispatch", "loop"}

(***************************************************************************)
(* binary_propagation, binary_fill_holes and binary_hit_or_miss: thin      *)
(* functions over binary_dilation and _binary_erosion.  They run on the    *)
(* machine of _binary_erosion above; a structure argument of None is       *)
(* NoArray and an origin2 argument of None is the empty tuple.             *)
(***************************************************************************)
Abs(x) == IF x < 0 THEN -x ELSE x

RECURSIVE SeqSum(_)
SeqSum(s) == IF s = <<>> THEN 0 ELSE Head(s) + SeqSum(Tail(s))

\* (mutant) the connectivity is used as passed
generate_binary_structure_unclamped(rank, connectivity) ==
    LET shape == [i \in 1..rank |-> 3]
    IN  IF rank < 1 THEN BoolArray(<<>>, {<<>>})
        ELSE BoolArray(shape,
                 {idx \in Coords(shape) :
                     SeqSum([i \in 1..rank |-> Abs(idx[i] - 1)])
                         <= connectivity})

\* numpy.add.reduce(numpy.fabs(numpy.indices([3] * rank) - 1), 0) <= connectivity
generate_binary_structure(rank, connectivity) ==
    LET conn == IF connectivity < 1 THEN 1 ELSE connectivity
        shape == [i \in 1..rank |-> 3]
    IN  IF rank < 1 THEN BoolArray(<<>>, {<<>>})
        ELSE BoolArray(shape,
                 {idx \in Coords(shape) :
                     SeqSum([i \in 1..rank |-> Abs(idx[i] - 1)]) <= conn})

NoOrigin == <<>>

HitOrMissCall(inp, s1, s2, out, o1, o2) ==
    [func |-> "binary_hit_or_miss", input |-> inp, structure |-> s1,
     iterations |-> 1, mask |-> NoArray, output |-> out, border_value |-> 0,
     origin |-> o1, brute_force |-> FALSE, structure2 |-> s2, origin2 |-> o2]

\* the arguments binary_hit_or_miss settles before its two calls
Structure1(c) ==
    IF c.structure = NoArray THEN generate_binary_structure(Rank(c.input), 1)
    ELSE c.structure

Structure2(c) ==
    IF c.structure2 = NoArray THEN LogicalNot(Structure1(c)) ELSE c.structure2

Origin2(c) == IF c.origin2 = NoOrigin THEN c.origin ELSE c.origin2

InputShapeHoles == <<3, 4>>

StructuresOrNone(shapes) == Structures(shapes) \cup {NoArray}

DefaultOrigins(st, rank) ==
    IF st = NoArray THEN {[i \in 1..rank |-> 0]} ELSE ValidOrigins(st.shape)

\* one-dimensional propagations, into a new array or the caller's
CallsPropagation(c) ==
    \E inp \in AllArrays(InputShape1),
       st \in StructuresOrNone(StructureShapes1),
       msk \in {NoArray} \cup AllArrays(InputShape1),
       out \in {NoArray, JunkBuffer(InputShape1)},
       bv \in {0, 1} :
        \E o \in DefaultOrigins(st, 1) :
            c = Call("binary_propagation", inp, st, 1, msk, out, bv, o, FALSE)

\* two-dimensional propagations with the default and the full structure
CallsPropagation2(c) ==
    \E inp \in AllArrays(InputShape2),
       st \in {NoArray, Ones(<<3, 3>>), Ones(<<2, 2>>)},
       msk \in {NoArray} \cup AllArrays(InputShape2) :
        c = Call("binary_propagation", inp, st, 1, msk, NoArray, 0, <<0, 0>>,
                 FALSE)

\* hole filling of every 3 x 4 image
CallsFillHoles(c) ==
    \E inp \in AllArrays(InputShapeHoles),
       st \in {NoArray, Ones(<<3, 3>>)},
       out \in {NoArray, JunkBuffer(InputShapeHoles)} :
        c = Call("binary_fill_holes", inp, st, 1, NoArray, out, 0, <<0, 0>>,
                 FALSE)

\* hole filling of one-dimensional images with every structure
CallsFillHoles1(c) ==
    \E inp \in AllArrays(InputShape1),
       st \in StructuresOrNone(StructureShapes1),
       out \in {NoArray, JunkBuffer(InputShape1)} :
        \E o \in DefaultOrigins(st, 1) :
            c = Call("binary_fill_holes", inp, st, 1, NoArray, out, 0, o, FALSE)

\* one-dimensional hit-or-miss transforms
CallsHitOrMiss(c) ==
    \E inp \in AllArrays(InputShape1),
       s1 \in StructuresOrNone(StructureShapes1),
       s2 \in StructuresOrNone(StructureShapes1),
       out \in {NoArray, JunkBuffer(InputShape1)} :
        \E o1 \in DefaultOrigins(s1, 1),
           o2 \in {NoOrigin} \cup DefaultOrigins(s2, 1) :
            c = HitOrMissCall(inp, s1, s2, out, o1, o2)

\* two-dimensional hit-or-miss transforms
CallsHitOrMiss2(c) ==
    \E inp \in AllArrays(InputShape2),
       s1 \in {NoArray} \cup AllArrays(<<2, 2>>),
       s2 \in {NoArray, BoolArray(<<2, 2>>, {<<0, 0>>}),
               BoolArray(<<3, 3>>, {<<0, 1>>, <<2, 2>>})},
       o2 \in {NoOrigin, <<0, 0>>, <<0, -1>>} :
        c = HitOrMissCall(inp, s1, s2, NoArray, <<0, 0>>, o2)

WrapperHeap(c) ==
    [out |-> IF c.output = NoArray THEN {} ELSE c.output.on,
     new |-> {}, t1 |-> {}, t2 |-> {}, tmp1 |-> {}, ret |-> {}]

WrapperInit ==
    /\ \/ CallsPropagation(call)
       \/ CallsPropagation2(call)
       \/ CallsFillHoles(call)
       \/ CallsFillHoles1(call)
       \/ CallsHitOrMiss(call)
       \/ CallsHitOrMiss2(call)
    /\ stage = 1
    /\ pc = "call"
    /\ input = NoArray /\ structure = NoArray /\ iterations = 0
    /\ mask = NoArray /\ output = None /\ border_value = 0 /\ origin = <<>>
    /\ invert = 0 /\ brute_force = FALSE
    /\ cit = FALSE /\ return_value = None
    /\ tmp_in = None /\ tmp_out = None /\ changed = FALSE /\ ii = 0
    /\ coordinate_list = {}
    /\ heap = WrapperHeap(call)
    /\ result = None
    /\ error = None

\* binary_dilation called with the arguments of record c
EnterBinaryDilation(c) ==
    LET struct == IF c.structure = NoArray
                  THEN generate_binary_structure(Rank(c.input), 1)
                  ELSE c.structure
    IN  IF Rank(struct) < Len(c.origin)
        THEN /\ pc' = "error"
             /\ error' = "IndexError: tuple index out of range"
             /\ UNCHANGED <<call, stage, input, structure, iterations, mask,
                            output, border_value, origin, invert, brute_force,
                            Locals, heap, result>>
        ELSE EnterBinaryErosion(c, ReflectStructure(struct),
                                ReflectOrigin(struct, c.origin), 1)

\* (mutant) the propagation runs a single dilation
BinaryPropagationOnce ==
    /\ pc = "call"
    /\ call.func = "binary_propagation"
    /\ EnterBinaryDilation([call EXCEPT !.iterations = 1])

\* binary_propagation: binary_dilation(input, structure, -1, mask, output,
\* border_value, origin)
BinaryPropagation ==
    /\ pc = "call"
    /\ call.func = "binary_propagation"
    /\ EnterBinaryDilation([call EXCEPT !.iterations = -1])

\* (mutant) the dilation of binary_fill_holes starts from border_value 0
BinaryFillHolesFromClearBorder ==
    /\ pc = "call"
    /\ call.func = "binary_fill_holes"
    /\ EnterBinaryDilation([call EXCEPT
           !.input = Zeros(call.input.shape),
           !.mask = LogicalNot(call.input),
           !.iterations = -1,
           !.border_value = 0])

\* binary_fill_holes: mask = logical_not(input), tmp = zeros, then
\* binary_dilation(tmp, structure, -1, mask, output, 1, origin)
BinaryFillHoles ==
    /\ pc = "call"
    /\ call.func = "binary_fill_holes"
    /\ EnterBinaryDilation([call EXCEPT
           !.input = Zeros(call.input.shape),
           !.mask = LogicalNot(call.input),
           !.iterations = -1,
           !.border_value = 1])

\* binary_fill_holes after the dilation: numpy.logical_not(output, output)
FillHolesComplement ==
    /\ pc = "done"
    /\ call.func = "binary_fill_holes"
    /\ LET b == IF call.output # NoArray THEN "out" ELSE result IN
       heap' = [heap EXCEPT ![b] = Coords(call.input.shape) \ heap[b]]
    /\ pc' = "returned"
    /\ UNCHANGED <<call, stage, input, structure, iterations, mask, output,
                   border_value, origin, invert, brute_force, Locals, result,
                   error>>

\* binary_hit_or_miss: tmp1 = _binary_erosion(input, structure1, 1, None,
\* None, 0, origin1, 0, False)
BinaryHitOrMiss ==
    /\ pc = "call"
    /\ call.func = "binary_hit_or_miss"
    /\ EnterBinaryErosion([call EXCEPT !.output = NoArray], Structure1(call),
                          call.origin, 0)

\* (mutant) the second call uses origin1 whatever origin2 is
HitOrMissSecondCallAtOrigin1 ==
    /\ pc = "done"
    /\ call.func = "binary_hit_or_miss"
    /\ stage = 1
    /\ stage' = 2
    /\ heap' = [heap EXCEPT !.tmp1 = heap[result]]
    /\ input' = call.input
    /\ structure' = Structure2(call)
    /\ iterations' = 1
    /\ mask' = NoArray
    /\ output' = IF call.output = NoArray THEN None ELSE "out"
    /\ border_value' = 0
    /\ origin' = call.origin
    /\ invert' = 1
    /\ brute_force' = FALSE
    /\ pc' = "_binary_erosion"
    /\ UNCHANGED <<call, Locals, result, error>>

\* binary_hit_or_miss: result = _binary_erosion(input, structure2, 1, None,
\* output, 0, origin2, 1, False)
HitOrMissSecondCall ==
    /\ pc = "done"
    /\ call.func = "binary_hit_or_miss"
    /\ stage = 1
    /\ stage' = 2
    /\ heap' = [heap EXCEPT !.tmp1 = heap[result]]
    /\ input' = call.input
    /\ structure' = Structure2(call)
    /\ iterations' = 1
    /\ mask' = NoArray
    /\ output' = IF call.output = NoArray THEN None ELSE "out"
    /\ border_value' = 0
    /\ origin' = Origin2(call)
    /\ invert' = 1
    /\ brute_force' = FALSE
    /\ pc' = "_binary_erosion"
    /\ UNCHANGED <<call, Locals, result, error>>

\* binary_hit_or_miss after the second call: logical_not of the second
\* result in place, then logical_and with tmp1 (into output, or returned)
HitOrMissCombine ==
    /\ pc = "done"
    /\ call.func = "binary_hit_or_miss"
    /\ stage = 2
    /\ LET b == IF call.output # NoArray THEN "out" ELSE result
           negated == Coords(call.input.shape) \ heap[b] IN
       /\ heap' = IF call.output # NoArray
                  THEN [heap EXCEPT !.out = heap.tmp1 \cap negated]
                  ELSE [heap EXCEPT ![b] = negated,
                                    !.ret = heap.tmp1 \cap negated]
       /\ result' = IF call.output # NoArray THEN None ELSE "ret"
    /\ pc' = "returned"
    /\ UNCHANGED <<call, stage, input, structure, iterations, mask, output,
                   border_value, origin, invert, brute_force, Locals, error>>

WrapperNext ==
    \/ BinaryPropagation
    \/ BinaryFillHoles
    \/ BinaryHitOrMiss
    \/ CheckArguments
    \/ SinglePass
    \/ Worklist
    \/ BruteForceFirst
    \/ BruteForcePass
    \/ BruteForceReturn
    \/ FillHolesComplement
    \/ HitOrMissSecondCall
    \/ HitOrMissCombine

WrapperSpec == WrapperInit /\ [][WrapperNext]_vars

WrapperReturned ==
    \/ pc = "returned"
    \/ pc = "done" /\ call.func = "binary_propagation"

WrapperDelivered ==
    BoolArray(call.input.shape,
              IF call.output # NoArray THEN heap.out ELSE heap[result])

(***************************************************************************)
(* Vocabulary of the properties of the three functions: a dilation step    *)
(* carries a set voxel q to q + (cell - centre) for a true structure cell, *)
(* the centre being shape // 2 + origin.                                   *)
(***************************************************************************)
Minus(p, o) == [i \in DOMAIN p |-> p[i] - o[i]]

\* the structure a call uses, the default one when none was passed
WithStructure(c) == [c EXCEPT !.structure = Structure1(c)]

\* the voxels a dilation step can reach p from
StepSources(c, p) ==
    {Minus(p, Minus(cell, CentreCell(c))) : cell \in c.structure.on}

\* least set holding every voxel of `through` that a step reaches from a
\* voxel of `from`, from a voxel already in the set, or (border) from a
\* voxel outside the array
RECURSIVE ReachedBySteps(_, _, _, _, _)
ReachedBySteps(c, from, through, border, got) ==
    LET more == {p \in through \ got :
                    \E q \in StepSources(c, p) :
                        \/ q \in from
                        \/ q \in got
                        \/ border /\ q \notin Coords(c.input.shape)}
    IN  IF more = {} THEN got
        ELSE ReachedBySteps(c, from, through, border, got \cup more)

Background(a) == Coords(a.shape) \ a.on

Ring == BoolArray(InputShapeHoles,
            {<<0, 0>>, <<0, 1>>, <<0, 2>>, <<1, 0>>, <<1, 2>>,
             <<2, 0>>, <<2, 1>>, <<2, 2>>})

FilledDisk == Ring.on \cup {<<1, 1>>}

(***************************************************************************)
(* C12: binary_fill_holes returns true at p iff input[p] is nonzero or p   *)
(* is a background voxel that no chain of structuring-element steps        *)
(* through background voxels reaches from outside the array; so the output *)
(* contains the input's foreground, and a closed ring comes back as the    *)
(* filled disk for the default and for the full 3 x 3 structure.           *)
(***************************************************************************)
C12_FillHoles ==
    (WrapperReturned /\ call.func = "binary_fill_holes")
    => LET c == WithStructure(call)
           invaded == ReachedBySteps(c, {}, Background(call.input), TRUE, {})
       IN  /\ \A p \in Coords(call.input.shape) :
                 (p \in WrapperDelivered.on) <=>
                     (p \in call.input.on \/ p \notin invaded)
           /\ call.input.on \subseteq WrapperDelivered.on
           /\ call.input = Ring => WrapperDelivered.on = FilledDisk

C12_Witness ==
    /\ WrapperReturned /\ call.func = "binary_fill_holes"
    /\ call.input = Ring
    /\ call.structure = Ones(<<3, 3>>)
    /\ call.output # NoArray
    /\ heap.out = FilledDisk
    /\ result = None

(***************************************************************************)
(* C13 as claimed: for every structure with a true cell,                   *)
(* binary_propagation(input, structure, mask) is the input's foreground    *)
(* plus exactly the mask-true voxels that a chain of dilation steps        *)
(* through mask-true voxels reaches from a foreground voxel.               *)
(***************************************************************************)
MaskOn(c) == IF c.mask = NoArray THEN Coords(c.input.shape) ELSE c.mask.on

Propagated(c) ==
    c.input.on \cup ReachedBySteps(c, c.input.on, MaskOn(c), FALSE, {})

C13_PropagationForEveryStructure ==
    (WrapperReturned /\ call.func = "binary_propagation"
        /\ call.border_value = 0
        /\ \A i \in DOMAIN call.origin : call.origin[i] = 0
        /\ WithStructure(call).structure.on # {})
    => WrapperDelivered.on = Propagated(WithStructure(call))

(***************************************************************************)
(* C13 amended: binary_propagation equals binary_dilation with iterations  *)
(* < 1 under the mask and leaves every mask-false voxel at its input       *)
(* value; for a structure whose centre cell (index shape // 2 + origin) is *)
(* true and border_value 0 the result is the input's foreground plus       *)
(* exactly the mask-true voxels reachable from it by dilation steps        *)
(* through mask-true voxels.                                               *)
(***************************************************************************)
C13_Propagation ==
    (WrapperReturned /\ call.func = "binary_propagation")
    => LET c == WithStructure(call)
           d == binary_dilation(c.input, c.structure, -1, c.mask,
                                c.border_value, c.origin, FALSE)
           d0 == binary_dilation(c.input, c.structure, 0, c.mask,
                                 c.border_value, c.origin, FALSE)
       IN  /\ d.ok /\ WrapperDelivered = d.array
           /\ d0.ok /\ WrapperDelivered = d0.array
           /\ \A p \in Coords(c.input.shape) \ MaskOn(c) :
                 (p \in WrapperDelivered.on) <=> (p \in c.input.on)
           /\ (CentreOn(c) /\ c.border_value = 0)
                 => WrapperDelivered.on = Propagated(c)

C13_Witness ==
    /\ WrapperReturned /\ call.func = "binary_propagation"
    /\ Rank(call.input) = 2
    /\ call.structure = NoArray
    /\ call.mask # NoArray
    /\ call.input.on = {<<0, 0>>}
    /\ call.mask.on = {<<0, 1>>, <<1, 1>>}
    /\ WrapperDelivered.on = {<<0, 0>>, <<0, 1>>, <<1, 1>>}

(***************************************************************************)
(* C14: binary_hit_or_miss returns true at p iff every true cell of        *)
(* structure1, placed with origin1, lies on a foreground voxel and every   *)
(* true cell of structure2, placed with origin2, lies on a background      *)
(* voxel, a voxel outside the array counting as background; an omitted     *)
(* structure2 is the complement of structure1 and an omitted origin2 is    *)
(* origin1.                                                                *)
(***************************************************************************)
CellPosition(struct, orig, p, cell) ==
    [i \in DOMAIN p |-> p[i] + cell[i] - ((struct.shape[i] \div 2) + orig[i])]

C14_HitOrMiss ==
    (WrapperReturned /\ call.func = "binary_hit_or_miss")
    => LET s1 == IF call.structure = NoArray
                 THEN generate_binary_structure(Rank(call.input), 1)
                 ELSE call.structure
           s2 == IF call.structure2 = NoArray
                 THEN BoolArray(s1.shape, Coords(s1.shape) \ s1.on)
                 ELSE call.structure2
           o2 == IF call.origin2 = NoOrigin THEN call.origin ELSE call.origin2
       IN  \A p \in Coords(call.input.shape) :
               (p \in WrapperDelivered.on) <=>
                   /\ \A cell \in s1.on :
                         CellPosition(s1, call.origin, p, cell) \in call.input.on
                   /\ \A cell \in s2.on :
                         CellPosition(s2, o2, p, cell) \notin call.input.on

C14_Witness ==
    /\ WrapperReturned /\ call.func = "binary_hit_or_miss"
    /\ call.structure # NoArray /\ call.structure2 = NoArray
    /\ call.structure.shape = <<2>> /\ call.structure.on = {<<0>>}
    /\ call.origin = <<-1>> /\ call.origin2 = NoOrigin
    /\ call.output # NoArray
    /\ call.input.on = {<<0>>, <<1>>}
    /\ heap.out = {<<1>>}

(***************************************************************************)
(* The distance-transform family: distance_transform_bf,                   *)
(* distance_transform_cdt and distance_transform_edt.  A numeric buffer is *)
(* a record [shape, dtype, data] whose data maps every coordinate of the   *)
(* image to a number (distances) or to a coordinate tuple (features; the   *)
(* leading axis of the indices array is the position inside the tuple).    *)
(* A float64 Euclidean distance d is held as the integer d * d, the value  *)
(* the code takes the square root of.                                      *)
(***************************************************************************)
NoBuffer == [shape |-> <<>>, dtype |-> "none", data |-> <<>>]

NoSampling == <<>>

Unallocated == <<>>

\* numpy.ravel: the row-major flat index of a coordinate
RECURSIVE RavelFrom(_, _, _, _)
RavelFrom(shape, c, i, acc) ==
    IF i > Len(shape) THEN acc
    ELSE RavelFrom(shape, c, i + 1, acc * shape[i] + c[i])

Ravel(shape, c) == RavelFrom(shape, c, 1, 0)

Unravel(shape, k) == CHOOSE c \in Coords(shape) : Ravel(shape, c) = k

\* a[tuple([slice(None, None, -1)] * rank)]
Reversed(shape, f) ==
    [p \in Coords(shape) |-> f[[i \in DOMAIN p |-> shape[i] - 1 - p[i]]]]

SetMin(S) == CHOOSE x \in S : \A y \in S : x <= y

SetMax(S) == CHOOSE x \in S : \A y \in S : y <= x

SamplingAt(sampling, i) == IF sampling = NoSampling THEN 1 ELSE sampling[i]

\* the distance between p and q: metric 1 Euclidean (squared, scaled by
\* sampling), 2 taxicab, 3 chessboard
MetricDistance(metric, sampling, p, q) ==
    IF metric = 1
    THEN SeqSum([i \in DOMAIN p |->
                    (SamplingAt(sampling, i) * (p[i] - q[i]))
                    * (SamplingAt(sampling, i) * (p[i] - q[i]))])
    ELSE IF metric = 2
    THEN SeqSum([i \in DOMAIN p |-> Abs(p[i] - q[i])])
    ELSE SetMax({Abs(p[i] - q[i]) : i \in DOMAIN p} \cup {0})

\* the nearest voxel of `among` to p, the first (or the last) in row-major
\* order when several are equally near
Nearest(shape, metric, sampling, p, among, first) ==
    LET d == SetMin({MetricDistance(metric, sampling, p, q) : q \in among})
        ties == {Ravel(shape, q) :
                    q \in {r \in among :
                              MetricDistance(metric, sampling, p, r) = d}}
    IN  Unravel(shape, IF first THEN SetMin(ties) ELSE SetMax(ties))

(***************************************************************************)
(* _nd_image.distance_transform_bf(tmp1, metric, sampling, dt, ft): every  *)
(* voxel with tmp1 > 0 gets the least distance to a boundary voxel (tmp1 < *)
(* 0) and the flat index of the first boundary voxel attaining it; every   *)
(* other voxel gets distance 0 and its own flat index.                     *)
(***************************************************************************)
nd_image_distance_transform_bf(shape, tmp1, metric, sampling) ==
    LET boundary == {q \in Coords(shape) : tmp1[q] < 0}
        near == [p \in Coords(shape) |->
                    IF tmp1[p] > 0
                    THEN Nearest(shape, metric, sampling, p, boundary, TRUE)
                    ELSE p]
    IN  [dt |-> [p \in Coords(shape) |->
                    MetricDistance(metric, sampling, p, near[p])],
         ft |-> [p \in Coords(shape) |-> Ravel(shape, near[p])]]

(***************************************************************************)
(* _nd_image.distance_transform_op(metric, dt, ft): one raster pass in     *)
(* increasing row-major order, in place.  Every voxel takes the least of   *)
(* its value and value + 1 of each causal neighbour (a true cell of the    *)
(* metric structure that precedes the centre cell); -1 stands for          *)
(* infinity, a neighbour outside the array proposes nothing, and the       *)
(* feature moves with the distance whenever the distance improves.         *)
(***************************************************************************)
CausalOffsets(metric) ==
    LET centre == [i \in DOMAIN metric.shape |-> metric.shape[i] \div 2]
    IN  {Minus(cell, centre) :
            cell \in {x \in metric.on :
                         Ravel(metric.shape, x) < Ravel(metric.shape, centre)}}

RECURSIVE OnePassFrom(_, _, _, _, _)
OnePassFrom(shape, offsets, dt, ft, k) ==
    IF k >= SeqProduct(shape) THEN [dt |-> dt, ft |-> ft]
    ELSE LET p == Unravel(shape, k)
             proposals == {q \in {Plus(p, o) : o \in offsets} :
                              q \in Coords(shape) /\ dt[q] # -1}
             best == IF proposals = {} THEN p
                     ELSE CHOOSE q \in proposals :
                              \A r \in proposals :
                                  \/ dt[q] < dt[r]
                                  \/ dt[q] = dt[r]
                                     /\ Ravel(shape, q) <= Ravel(shape, r)
             improves == /\ proposals # {}
                         /\ dt[p] = -1 \/ dt[best] + 1 < dt[p]
         IN  IF improves
             THEN OnePassFrom(shape, offsets,
                      [dt EXCEPT ![p] = dt[best] + 1],
                      IF ft = Unallocated THEN ft
                      ELSE [ft EXCEPT ![p] = ft[best]],
                      k + 1)
             ELSE OnePassFrom(shape, offsets, dt, ft, k + 1)

nd_image_distance_transform_op(shape, metric, dt, ft) ==
    OnePassFrom(shape, CausalOffsets(metric), dt, ft, 0)

(***************************************************************************)
(* _nd_image.euclidean_feature_transform(input, sampling, ft): every       *)
(* background voxel maps to itself and every foreground voxel to a         *)
(* background voxel at the least sampling-scaled Euclidean distance; the   *)
(* rule that picks one of several equally near voxels is not fixed by the  *)
(* contract (first: the first of them in row-major order, else the last).  *)
(***************************************************************************)
nd_image_euclidean_feature_transform(inp, sampling, first) ==
    [p \in Coords(inp.shape) |->
        IF p \in inp.on
        THEN Nearest(inp.shape, 1, sampling, p, Background(inp), first)
        ELSE p]

(***************************************************************************)
(* The calls of the distance-transform family.  The metric argument is a   *)
(* record [name, array]: a string, or a custom structure with name "".     *)
(***************************************************************************)
InputShapeDT == <<3, 3>>

MetricName(n) == [name |-> n, array |-> NoArray]

MetricArray(a) == [name |-> "", array |-> a]

\* str.lower() on the metric names of the model
Lower(n) ==
    IF n = "Chessboard" THEN "chessboard"
    ELSE IF n = "EUCLIDEAN" THEN "euclidean"
    ELSE n

TaxicabNames == {"taxicab", "cityblock", "manhattan"}

MetricNames ==
    {"euclidean", "chessboard", "Chessboard", "EUCLIDEAN", "minkowski"}
        \cup TaxicabNames

DistanceCall(f, inp, metric, sampling, rd, ri, dist, ind) ==
    [func |-> f, input |-> inp, metric |-> metric, sampling |-> sampling,
     return_distances |-> rd, return_indices |-> ri,
     distances |-> dist, indices |-> ind,
     output |-> NoArray]

Filled(shape, v) == [p \in Coords(shape) |-> v]

\* numpy.indices(shape): every voxel's own coordinate
numpy_indices(shape) == [p \in Coords(shape) |-> p]

\* the element type the function requires of a distances buffer
DistancesType(f, metric) ==
    IF f = "distance_transform_cdt" THEN "int32"
    ELSE IF f = "distance_transform_edt" THEN "float64"
    ELSE IF Lower(metric.name) = "euclidean" THEN "float64"
    ELSE "uint32"

\* buffers a caller may pass: of the required shape and type (holding old
\* values), of another shape, of another type
DistancesBuffer(shape, dtype) ==
    [shape |-> shape, dtype |-> dtype, data |-> Filled(shape, 7)]

IndicesBuffer(shape, dtype) ==
    [shape |-> <<Len(shape)>> \o shape, dtype |-> dtype,
     data |-> Filled(shape, [i \in DOMAIN shape |-> 0])]

\* what is requested and which buffers are passed, for well-formed calls
Requests ==
    {<<TRUE, FALSE, FALSE, FALSE>>, <<TRUE, TRUE, FALSE, FALSE>>,
     <<FALSE, TRUE, FALSE, FALSE>>, <<TRUE, TRUE, TRUE, TRUE>>,
     <<TRUE, FALSE, TRUE, FALSE>>, <<FALSE, TRUE, FALSE, TRUE>>}

RequestCall(f, inp, metric, sampling, req) ==
    DistanceCall(f, inp, metric, sampling, req[1], req[2],
        IF req[3] THEN DistancesBuffer(inp.shape, DistancesType(f, metric))
        ELSE NoBuffer,
        IF req[4] THEN IndicesBuffer(inp.shape, "int32") ELSE NoBuffer)

Samplings == {NoSampling, <<2, 1>>}

\* brute-force transforms of every image with a background voxel
CallsBf(c) ==
    \E inp \in AllArrays(InputShapeDT) \ {Ones(InputShapeDT)},
       n \in {"euclidean", "taxicab", "chessboard"},
       req \in Requests :
        c = RequestCall("distance_transform_bf", inp, MetricName(n),
                        NoSampling, req)

\* chamfer transforms of every image
CallsCdt(c) ==
    \E inp \in AllArrays(InputShapeDT),
       n \in {"taxicab", "chessboard"},
       req \in Requests :
        c = RequestCall("distance_transform_cdt", inp, MetricName(n),
                        NoSampling, req)

\* exact Euclidean transforms of every image with a background voxel
CallsEdt(c) ==
    \E inp \in AllArrays(InputShapeDT) \ {Ones(InputShapeDT)},
       sampling \in Samplings,
       req \in Requests :
        c = RequestCall("distance_transform_edt", inp,
                        MetricName("euclidean"), sampling, req)

DiagonalImage == BoolArray(InputShapeDT, {<<0, 0>>, <<1, 1>>, <<2, 2>>, <<0, 1>>})

\* calls with other metrics, other flags and ill-formed buffers
CallsDistanceOther(c) ==
    \E f \in {"distance_transform_bf", "distance_transform_cdt",
              "distance_transform_edt"},
       inp \in {Zeros(InputShapeDT), DiagonalImage},
       metric \in {MetricName(n) : n \in MetricNames}
                  \cup {MetricArray(a) :
                           a \in {Ones(<<3, 3>>), Ones(<<3, 2>>),
                                  Ones(<<2, 2>>),
                                  generate_binary_structure(2, 1)}},
       rd \in BOOLEAN, ri \in BOOLEAN,
       sampling \in Samplings :
        \E dist \in {NoBuffer,
                     DistancesBuffer(InputShapeDT, DistancesType(f, metric)),
                     DistancesBuffer(<<3, 2>>, DistancesType(f, metric)),
                     DistancesBuffer(InputShapeDT, "float32")},
           ind \in {NoBuffer,
                    IndicesBuffer(InputShapeDT, "int32"),
                    IndicesBuffer(<<3, 2>>, "int32"),
                    IndicesBuffer(InputShapeDT, "int64")} :
            /\ f = "distance_transform_edt" => metric = MetricName("euclidean")
            /\ f = "distance_transform_cdt" => sampling = NoSampling
            /\ f = "distance_transform_bf" => metric.array = NoArray
            /\ c = DistanceCall(f, inp, metric, sampling, rd, ri, dist, ind)

DistanceHeap(c) ==
    [distances |-> c.distances.data, indices |-> c.indices.data,
     tmp1 |-> Unallocated, metric |-> 0, dt |-> Unallocated,
     ft |-> Unallocated, tmp2 |-> Unallocated, tmp |-> Unallocated,
     sweeps |-> <<>>]

DistanceInit ==
    /\ \/ CallsBf(call)
       \/ CallsCdt(call)
       \/ CallsEdt(call)
       \/ CallsDistanceOther(call)
    /\ stage = 1
    /\ pc = "call"
    /\ input = NoArray /\ structure = NoArray /\ iterations = 0
    /\ mask = NoArray /\ output = None /\ border_value = 0 /\ origin = <<>>
    /\ invert = 0 /\ brute_force = FALSE
    /\ cit = FALSE /\ return_value = None
    /\ tmp_in = None /\ tmp_out = None /\ changed = FALSE /\ ii = 0
    /\ coordinate_list = {}
    /\ heap = DistanceHeap(call)
    /\ result = None
    /\ error = None

\* the variables of the binary morphology machine, idle in this family
Idle ==
    UNCHANGED <<call, stage, input, structure, iterations, mask, output,
                border_value, origin, invert, brute_force, Locals>>

Raise(msg) ==
    /\ pc' = "error"
    /\ error' = msg
    /\ UNCHANGED <<heap, result>>
    /\ Idle

NeitherRequested(c) == (~c.return_distances) /\ (~c.return_indices)

\* what the call returns: the arrays requested and not passed by the caller
Results(c) ==
    IF c.return_distances /\ c.distances = NoBuffer
    THEN IF c.return_indices /\ c.indices = NoBuffer THEN "dt, ft" ELSE "dt"
    ELSE IF c.return_indices /\ c.indices = NoBuffer THEN "ft" ELSE None

(***************************************************************************)
(* distance_transform_bf.                                                  *)
(***************************************************************************)
ZeroOrigin(rank) == [i \in 1..rank |-> 0]

\* (mutant) the boundary is taken with binary_erosion: the voxels that the
\* erosion removes from the foreground
BoundaryCodingByErosion(inp) ==
    LET struct == generate_binary_structure(Rank(inp), Rank(inp))
        tmp2 == binary_erosion(inp, struct, 1, NoArray, 0,
                               ZeroOrigin(Rank(inp)), FALSE).array
        xor == (inp.on \ tmp2.on) \cup (tmp2.on \ inp.on)
    IN  [p \in Coords(inp.shape) |->
            (IF p \in inp.on THEN 1 ELSE 0) - (IF p \in xor THEN 1 ELSE 0)]

\* tmp1 as handed to the kernel: 1 on the foreground, -1 on the voxels that
\* binary_dilation adds to it, 0 elsewhere
BoundaryCoding(inp) ==
    LET struct == generate_binary_structure(Rank(inp), Rank(inp))
        tmp2 == binary_dilation(inp, struct, 1, NoArray, 0,
                                ZeroOrigin(Rank(inp)), FALSE).array
        xor == (inp.on \ tmp2.on) \cup (tmp2.on \ inp.on)
    IN  [p \in Coords(inp.shape) |->
            (IF p \in inp.on THEN 1 ELSE 0) - (IF p \in xor THEN 1 ELSE 0)]

BfMetricNumber(n) ==
    IF Lower(n) = "euclidean" THEN 1
    ELSE IF Lower(n) \in TaxicabNames THEN 2
    ELSE IF Lower(n) = "chessboard" THEN 3
    ELSE 0

\* (mutant) the flags are tested after the buffers are set up
BfPrepareWithoutFlagCheck ==
    /\ pc = "call"
    /\ call.func = "distance_transform_bf"
    /\ LET metric == BfMetricNumber(call.metric.name)
           dist == call.distances IN
       IF metric = 0 THEN Raise("RuntimeError: distance metric not supported")
       ELSE /\ pc' = "bf_kernel"
            /\ heap' = [heap EXCEPT
                  !.tmp1 = BoundaryCoding(call.input),
                  !.metric = metric,
                  !.ft = Filled(call.input.shape, 0),
                  !.dt = Filled(call.input.shape, 0)]
            /\ UNCHANGED <<result, error>>
            /\ Idle

\* from the flags to the call of the kernel: the boundary coding, the
\* metric, and the checks of the distances buffer
BfPrepare ==
    /\ pc = "call"
    /\ call.func = "distance_transform_bf"
    /\ LET metric == BfMetricNumber(call.metric.name)
           dist == call.distances IN
       IF NeitherRequested(call)
       THEN Raise("RuntimeError: at least one of distances/indices must be specified")
       ELSE IF metric = 0
       THEN Raise("RuntimeError: distance metric not supported")
       ELSE IF call.return_distances /\ dist # NoBuffer
               /\ dist.shape # call.input.shape
       THEN Raise("RuntimeError: distances array has wrong shape")
       ELSE IF call.return_distances /\ dist # NoBuffer
               /\ dist.dtype # (IF metric = 1 THEN "float64" ELSE "uint32")
       THEN Raise(IF metric = 1
                  THEN "RuntimeError: distances array must be float64"
                  ELSE "RuntimeError: distances array must be uint32")
       ELSE /\ pc' = "bf_kernel"
            /\ heap' = [heap EXCEPT
                  !.tmp1 = BoundaryCoding(call.input),
                  !.metric = metric,
                  !.ft = IF call.return_indices
                         THEN Filled(call.input.shape, 0) ELSE Unallocated,
                  !.dt = IF call.return_distances /\ dist = NoBuffer
                         THEN Filled(call.input.shape, 0) ELSE Unallocated]
            /\ UNCHANGED <<result, error>>
            /\ Idle

\* _nd_image.distance_transform_bf(tmp1, metric, sampling, dt, ft); dt is
\* the caller's distances array when one was passed
BfKernel ==
    /\ pc = "bf_kernel"
    /\ LET r == nd_image_distance_transform_bf(call.input.shape, heap.tmp1,
                    heap.metric, call.sampling) IN
       heap' = [heap EXCEPT
           !.distances = IF call.return_distances /\ call.distances # NoBuffer
                         THEN r.dt ELSE @,
           !.dt = IF call.return_distances /\ call.distances = NoBuffer
                  THEN r.dt ELSE @,
           !.ft = IF call.return_indices THEN r.ft ELSE @]
    /\ pc' = "bf_indices"
    /\ UNCHANGED <<result, error>>
    /\ Idle

\* the flat feature indices become coordinates: tmp2 is the caller's
\* indices array or numpy.indices, and tmp2[ii] = ravel(tmp2[ii])[ft]
GatherThrough(shape, tmp2, ft) ==
    [p \in Coords(shape) |-> tmp2[Unravel(shape, ft[p])]]

\* after the kernel: the checks of the indices buffer, the gather, and the
\* result
BfIndices ==
    /\ pc = "bf_indices"
    /\ LET ind == call.indices
           shape == call.input.shape IN
       IF call.return_indices /\ ind # NoBuffer /\ ind.dtype # "int32"
       THEN Raise("RuntimeError: indices must of int32 type")
       ELSE IF call.return_indices /\ ind # NoBuffer
               /\ ind.shape # <<Len(shape)>> \o shape
       THEN Raise("RuntimeError: indices has wrong shape")
       ELSE /\ heap' = IF ~call.return_indices THEN heap
                       ELSE IF ind # NoBuffer
                       THEN [heap EXCEPT !.indices =
                               GatherThrough(shape, heap.indices, heap.ft)]
                       ELSE [heap EXCEPT !.tmp2 =
                               GatherThrough(shape, numpy_indices(shape), heap.ft)]
            /\ result' = Results(call)
            /\ pc' = "returned"
            /\ error' = error
            /\ Idle

(***************************************************************************)
(* distance_transform_cdt.                                                 *)
(***************************************************************************)
\* numpy.asarray of a string: an array of no axes
StringArray == [shape |-> <<>>, dtype |-> "str", on |-> {}]

\* the metric structure: generated for the names the code knows, else
\* numpy.asarray(metric)
CdtMetric(c) ==
    IF c.metric.name \in TaxicabNames
    THEN generate_binary_structure(Rank(c.input), 1)
    ELSE IF c.metric.name = "chessboard"
    THEN generate_binary_structure(Rank(c.input), Rank(c.input))
    ELSE IF c.metric.array = NoArray THEN StringArray
    ELSE c.metric.array

\* numpy.where(input, -1, 0)
Sentinels(inp) == [p \in Coords(inp.shape) |-> IF p \in inp.on THEN -1 ELSE 0]

\* numpy.arange(size) with the shape of dt
Arange(shape) == [p \in Coords(shape) |-> Ravel(shape, p)]

\* from the flags to the first pass: the metric, the checks of the
\* distances buffer, the initial distances (written into the caller's
\* array when one was passed) and the initial features
CdtPrepare ==
    /\ pc = "call"
    /\ call.func = "distance_transform_cdt"
    /\ LET metric == CdtMetric(call)
           dist == call.distances
           init == Sentinels(call.input) IN
       IF NeitherRequested(call)
       THEN Raise("RuntimeError: at least one of distances/indices must be specified")
       ELSE IF \E i \in DOMAIN metric.shape : metric.shape[i] # 3
       THEN Raise("RuntimeError: metric sizes must be equal to 3")
       ELSE IF dist # NoBuffer /\ dist.dtype # "int32"
       THEN Raise("RuntimeError: distances must be of int32 type")
       ELSE IF dist # NoBuffer /\ dist.shape # call.input.shape
       THEN Raise("RuntimeError: distances has wrong shape")
       ELSE /\ pc' = "cdt_forward"
            /\ heap' = [heap EXCEPT
                  !.metric = metric,
                  !.distances = IF dist # NoBuffer THEN init ELSE @,
                  !.dt = IF dist = NoBuffer THEN init ELSE @,
                  !.ft = IF call.return_indices
                         THEN Arange(call.input.shape) ELSE Unallocated]
            /\ UNCHANGED <<result, error>>
            /\ Idle

DtName(c) == IF c.distances # NoBuffer THEN "distances" ELSE "dt"

\* the kernel is specified for a boolean structure of the image's rank
\* with three cells on every axis
KernelMetricOk(metric, rank) ==
    /\ metric.dtype = "bool"
    /\ Rank(metric) = rank
    /\ \A i \in DOMAIN metric.shape : metric.shape[i] = 3

\* _nd_image.distance_transform_op(metric, dt, ft): the forward pass.  For
\* a metric outside its contract the kernel either raises or finds no
\* neighbour and changes nothing.
CdtForward ==
    /\ pc = "cdt_forward"
    /\ IF KernelMetricOk(heap.metric, Rank(call.input))
       THEN LET r == nd_image_distance_transform_op(call.input.shape,
                         heap.metric, heap[DtName(call)], heap.ft) IN
            /\ heap' = [heap EXCEPT ![DtName(call)] = r.dt, !.ft = r.ft,
                                    !.sweeps = Append(@, "forward")]
            /\ pc' = "cdt_backward"
            /\ UNCHANGED <<result, error>>
            /\ Idle
       ELSE \/ Raise("RuntimeError: structure not supported")
            \/ /\ pc' = "cdt_backward"
               /\ heap' = [heap EXCEPT !.sweeps = Append(@, "forward")]
               /\ UNCHANGED <<result, error>>
               /\ Idle

\* (mutant) the second kernel call runs on the arrays as they are: a
\* second forward pass
CdtBackwardNotReversed ==
    /\ pc = "cdt_backward"
    /\ IF KernelMetricOk(heap.metric, Rank(call.input))
       THEN LET shape == call.input.shape
                r == nd_image_distance_transform_op(shape, heap.metric,
                         heap[DtName(call)], heap.ft) IN
            heap' = [heap EXCEPT ![DtName(call)] = r.dt, !.ft = r.ft,
                                 !.sweeps = Append(@, "forward")]
       ELSE heap' = [heap EXCEPT !.sweeps = Append(@, "forward")]
    /\ pc' = "cdt_indices"
    /\ UNCHANGED <<result, error>>
    /\ Idle

\* (mutant) after the backward pass the pass sequence is run once more
CdtBackwardThenAgain ==
    /\ pc = "cdt_backward"
    /\ IF KernelMetricOk(heap.metric, Rank(call.input))
       THEN LET shape == call.input.shape
                r == nd_image_distance_transform_op(shape, heap.metric,
                         Reversed(shape, heap[DtName(call)]),
                         IF call.return_indices
                         THEN Reversed(shape, heap.ft) ELSE Unallocated) IN
            heap' = [heap EXCEPT
                ![DtName(call)] = Reversed(shape, r.dt),
                !.ft = IF call.return_indices
                       THEN Reversed(shape, r.ft) ELSE @,
                !.sweeps = Append(@, "backward")]
       ELSE heap' = [heap EXCEPT !.sweeps = Append(@, "backward")]
    /\ pc' = IF Len(heap.sweeps) < 3 THEN "cdt_forward" ELSE "cdt_indices"
    /\ UNCHANGED <<result, error>>
    /\ Idle

\* dt and ft reversed on every axis, the kernel again, and reversed back:
\* the backward pass
CdtBackward ==
    /\ pc = "cdt_backward"
    /\ IF KernelMetricOk(heap.metric, Rank(call.input))
       THEN LET shape == call.input.shape
                r == nd_image_distance_transform_op(shape, heap.metric,
                         Reversed(shape, heap[DtName(call)]),
                         IF call.return_indices
                         THEN Reversed(shape, heap.ft) ELSE Unallocated) IN
            heap' = [heap EXCEPT
                ![DtName(call)] = Reversed(shape, r.dt),
                !.ft = IF call.return_indices
                       THEN Reversed(shape, r.ft) ELSE @,
                !.sweeps = Append(@, "backward")]
       ELSE heap' = [heap EXCEPT !.sweeps = Append(@, "backward")]
    /\ pc' = "cdt_indices"
    /\ UNCHANGED <<result, error>>
    /\ Idle

\* after the passes: the checks of the indices buffer, the gather, and the
\* result
CdtIndices ==
    /\ pc = "cdt_indices"
    /\ LET ind == call.indices
           shape == call.input.shape IN
       IF call.return_indices /\ ind # NoBuffer /\ ind.dtype # "int32"
       THEN Raise("RuntimeError: indices must of int32 type")
       ELSE IF call.return_indices /\ ind # NoBuffer
               /\ ind.shape # <<Len(shape)>> \o shape
       THEN Raise("RuntimeError: indices has wrong shape")
       ELSE /\ heap' = IF ~call.return_indices THEN heap
                       ELSE IF ind # NoBuffer
                       THEN [heap EXCEPT !.indices =
                               GatherThrough(shape, heap.indices, heap.ft)]
                       ELSE [heap EXCEPT !.tmp =
                               GatherThrough(shape, numpy_indices(shape), heap.ft)]
            /\ result' = Results(call)
            /\ pc' = "returned"
            /\ error' = error
            /\ Idle

(***************************************************************************)
(* distance_transform_edt.                                                 *)
(***************************************************************************)
FtName(c) == IF c.indices # NoBuffer THEN "indices" ELSE "ft"

\* from the flags to the kernel: the checks of the indices buffer, which is
\* the feature array whenever one was passed
EdtPrepare ==
    /\ pc = "call"
    /\ call.func = "distance_transform_edt"
    /\ LET ind == call.indices
           shape == call.input.shape IN
       IF NeitherRequested(call)
       THEN Raise("RuntimeError: at least one of distances/indices must be specified")
       ELSE IF ind # NoBuffer /\ ind.shape # <<Len(shape)>> \o shape
       THEN Raise("RuntimeError: indices has wrong shape")
       ELSE IF ind # NoBuffer /\ ind.dtype # "int32"
       THEN Raise("RuntimeError: indices must be of int32 type")
       ELSE /\ pc' = "edt_kernel"
            /\ heap' = IF ind = NoBuffer
                       THEN [heap EXCEPT !.ft =
                               Filled(shape, ZeroOrigin(Len(shape)))]
                       ELSE heap
            /\ UNCHANGED <<result, error>>
            /\ Idle

\* _nd_image.euclidean_feature_transform(input, sampling, ft)
EdtKernel ==
    /\ pc = "edt_kernel"
    /\ \E first \in BOOLEAN :
          heap' = [heap EXCEPT ![FtName(call)] =
                      nd_image_euclidean_feature_transform(call.input,
                          call.sampling, first)]
    /\ pc' = "edt_distances"
    /\ UNCHANGED <<result, error>>
    /\ Idle

\* (mutant) the differences are squared and summed without the scaling
SquaredDistancesUnscaled(shape, sampling, ft) ==
    [p \in Coords(shape) |-> MetricDistance(1, NoSampling, ft[p], p)]

\* dt = ft - numpy.indices, scaled by sampling, squared and summed over the
\* leading axis
SquaredDistances(shape, sampling, ft) ==
    [p \in Coords(shape) |-> MetricDistance(1, sampling, ft[p], p)]

\* the distances from the features, the checks of the distances buffer,
\* and the result
EdtDistances ==
    /\ pc = "edt_distances"
    /\ LET dist == call.distances
           shape == call.input.shape
           dt == SquaredDistances(shape, call.sampling, heap[FtName(call)]) IN
       IF call.return_distances /\ dist # NoBuffer /\ dist.shape # shape
       THEN Raise("RuntimeError: indices has wrong shape")
       ELSE IF call.return_distances /\ dist # NoBuffer
               /\ dist.dtype # "float64"
       THEN Raise("RuntimeError: indices must be of float64 type")
       ELSE /\ heap' = IF ~call.return_distances THEN heap
                       ELSE IF dist # NoBuffer
                       THEN [heap EXCEPT !.distances = dt]
                       ELSE [heap EXCEPT !.dt = dt]
            /\ result' = Results(call)
            /\ pc' = "returned"
            /\ error' = error
            /\ Idle

DistanceNext ==
    \/ BfPrepare
    \/ BfKernel
    \/ BfIndices
    \/ CdtPrepare
    \/ CdtForward
    \/ CdtBackward
    \/ CdtIndices
    \/ EdtPrepare
    \/ EdtKernel
    \/ EdtDistances

DistanceSpec == DistanceInit /\ [][DistanceNext]_vars

(***************************************************************************)
(* What a finished call of the family delivered.                           *)
(***************************************************************************)
DistanceReturned == pc = "returned"

\* the distances: in the caller's array when one was passed
DeliveredDistances ==
    IF call.distances # NoBuffer THEN heap.distances ELSE heap.dt

\* the features as coordinates: in the caller's array when one was passed
DeliveredIndices ==
    IF call.indices # NoBuffer THEN heap.indices
    ELSE IF call.func = "distance_transform_bf" THEN heap.tmp2
    ELSE IF call.func = "distance_transform_cdt" THEN heap.tmp
    ELSE heap.ft

(***************************************************************************)
(* C15: distance_transform_bf, distance_transform_cdt and                  *)
(* distance_transform_edt report an error when neither distances nor       *)
(* indices are requested, before the input is read or a buffer of the      *)
(* caller is written.                                                      *)
(***************************************************************************)
C15_NeitherRequestedIsAnError ==
    NeitherRequested(call)
    => /\ pc \in {"call", "error"}
       /\ pc = "error" =>
             error = "RuntimeError: at least one of distances/indices must be specified"
       /\ heap = DistanceHeap(call)
       /\ result = None

C15_Witness ==
    /\ NeitherRequested(call)
    /\ call.func = "distance_transform_cdt"
    /\ call.distances = DistancesBuffer(InputShapeDT, "int32")
    /\ call.indices = IndicesBuffer(InputShapeDT, "int32")
    /\ call.input = DiagonalImage
    /\ pc = "error"
    /\ heap.distances = Filled(InputShapeDT, 7)

(***************************************************************************)
(* C16: when a function of the family fails because a distances or         *)
(* indices buffer of the caller has the wrong shape or element type,       *)
(* neither buffer of the caller has been modified.                         *)
(***************************************************************************)
BufferErrors ==
    {"RuntimeError: distances array has wrong shape",
     "RuntimeError: distances array must be float64",
     "RuntimeError: distances array must be uint32",
     "RuntimeError: distances must be of int32 type",
     "RuntimeError: distances has wrong shape",
     "RuntimeError: indices must of int32 type",
     "RuntimeError: indices has wrong shape",
     "RuntimeError: indices must be of int32 type",
     "RuntimeError: indices must be of float64 type"}

C16_NoPartialFailure ==
    (pc = "error" /\ error \in BufferErrors)
    => /\ heap.distances = call.distances.data
       /\ heap.indices = call.indices.data

(***************************************************************************)
(* C17: distance_transform_bf and distance_transform_cdt raise for every   *)
(* metric string outside the names they know (bf, whatever the case of the *)
(* letters: euclidean, taxicab, cityblock, manhattan, chessboard; cdt:     *)
(* taxicab, cityblock, manhattan, chessboard), and cdt raises for a custom *)
(* metric array with an axis of length other than 3.                       *)
(***************************************************************************)
MetricErrors ==
    {"RuntimeError: distance metric not supported",
     "RuntimeError: invalid metric provided",
     "RuntimeError: metric sizes must be equal to 3"}

UnknownMetric(c) ==
    \/ /\ c.func = "distance_transform_bf"
       /\ Lower(c.metric.name) \notin TaxicabNames \cup {"euclidean", "chessboard"}
    \/ /\ c.func = "distance_transform_cdt"
       /\ c.metric.array = NoArray
       /\ c.metric.name \notin TaxicabNames \cup {"chessboard"}
    \/ /\ c.func = "distance_transform_cdt"
       /\ c.metric.array # NoArray
       /\ \E i \in DOMAIN c.metric.array.shape : c.metric.array.shape[i] # 3

C17_UnknownMetricIsAnError ==
    (UnknownMetric(call) /\ ~NeitherRequested(call))
    => /\ ~DistanceReturned
       /\ pc = "error" => error \in MetricErrors

(***************************************************************************)
(* Vocabulary of the distance properties.                                  *)
(***************************************************************************)
\* the least distance from p to a background voxel of the image
TrueDistance(inp, metric, p) ==
    SetMin({MetricDistance(metric, NoSampling, p, q) : q \in Background(inp)})

HasBackground(inp) == Background(inp) # {}

(***************************************************************************)
(* C18: distance_transform_bf, for an input with a background voxel and    *)
(* each metric: every background voxel gets distance 0 and itself as       *)
(* feature, every foreground voxel the least distance to any background    *)
(* voxel, and its feature is a background voxel at that distance.          *)
(***************************************************************************)
BfDistancesCorrect ==
    \A p \in Coords(call.input.shape) :
        DeliveredDistances[p] = TrueDistance(call.input, heap.metric, p)

BfFeaturesCorrect ==
    \A p \in Coords(call.input.shape) :
        LET q == DeliveredIndices[p] IN
        /\ q \in Background(call.input)
        /\ MetricDistance(heap.metric, NoSampling, p, q)
              = TrueDistance(call.input, heap.metric, p)
        /\ p \in Background(call.input) => q = p

C18_BruteForceCorrect ==
    (DistanceReturned /\ call.func = "distance_transform_bf"
        /\ HasBackground(call.input) /\ call.sampling = NoSampling)
    => /\ call.return_distances => BfDistancesCorrect
       /\ call.return_indices => BfFeaturesCorrect

\* C18 for the calls that pass no indices array
C18_BruteForceCorrectReturnedIndices ==
    (DistanceReturned /\ call.func = "distance_transform_bf"
        /\ HasBackground(call.input) /\ call.sampling = NoSampling
        /\ call.indices = NoBuffer)
    => /\ call.return_distances => BfDistancesCorrect
       /\ call.return_indices => BfFeaturesCorrect

(***************************************************************************)
(* C19 as claimed: for an input with a background voxel, the distance of   *)
(* distance_transform_cdt with metric 'chessboard' and with metric         *)
(* 'taxicab' is at every voxel at least the Euclidean distance to the      *)
(* nearest background voxel (compared as squares).                         *)
(***************************************************************************)
ChamferCall ==
    /\ DistanceReturned /\ call.func = "distance_transform_cdt"
    /\ call.metric.name \in {"taxicab", "chessboard"}
    /\ call.return_distances
    /\ HasBackground(call.input)

C19_ChamferAtLeastEuclidean ==
    ChamferCall
    => \A p \in Coords(call.input.shape) :
          DeliveredDistances[p] * DeliveredDistances[p]
              >= TrueDistance(call.input, 1, p)

(***************************************************************************)
(* C19 amended: the taxicab distance of distance_transform_cdt is at every *)
(* voxel at least the Euclidean distance to the nearest background voxel,  *)
(* and the chessboard distance is at every voxel at most that distance     *)
(* (and never negative).                                                   *)
(***************************************************************************)
C19_ChamferBounds ==
    ChamferCall
    => \A p \in Coords(call.input.shape) :
          LET d == DeliveredDistances[p] IN
          /\ d >= 0
          /\ call.metric.name = "taxicab"
                => d * d >= TrueDistance(call.input, 1, p)
          /\ call.metric.name = "chessboard"
                => d * d <= TrueDistance(call.input, 1, p)

C19_Witness ==
    /\ ChamferCall
    /\ call.metric.name = "chessboard"
    /\ call.input.on = Coords(InputShapeDT) \ {<<0, 0>>}
    /\ DeliveredDistances[<<2, 2>>] = 2
    /\ TrueDistance(call.input, 1, <<2, 2>>) = 8

(***************************************************************************)
(* C20: an all-zero input yields all-zero distances from                   *)
(* distance_transform_bf (every metric), distance_transform_cdt (taxicab   *)
(* and chessboard) and distance_transform_edt, and when indices are        *)
(* requested every voxel's feature is its own coordinate.                  *)
(***************************************************************************)
AllZeroInputResult ==
    /\ call.return_distances
          => DeliveredDistances = Filled(call.input.shape, 0)
    /\ call.return_indices
          => DeliveredIndices = numpy_indices(call.input.shape)

\* distance_transform_cdt with either of its two named metrics, or one of
\* the other two functions
ChamferOrOtherFunction ==
    call.func = "distance_transform_cdt"
        => call.metric.name \in {"taxicab", "chessboard"}

C20_AllZeroInput ==
    (DistanceReturned /\ call.input.on = {} /\ ChamferOrOtherFunction)
    => AllZeroInputResult

\* C20 for the calls that pass no indices array
C20_AllZeroInputReturnedIndices ==
    (DistanceReturned /\ call.input.on = {} /\ ChamferOrOtherFunction
        /\ call.indices = NoBuffer)
    => AllZeroInputResult

(***************************************************************************)
(* C21: distance_transform_edt is exact.  For an input with a background   *)
(* voxel the feature of a background voxel is the voxel itself, the        *)
(* feature of a foreground voxel p is a background voxel q that minimises  *)
(* the sum over the axes of (sampling[i] * (q[i] - p[i]))^2, the distance  *)
(* is the square root of that sum (held squared), and the squared          *)
(* distances are those of the brute-force transform with the Euclidean     *)
(* metric and the same sampling.                                           *)
(***************************************************************************)
SampledDistance(inp, sampling, p) ==
    SetMin({MetricDistance(1, sampling, p, q) : q \in Background(inp)})

EdtFeaturesExact ==
    \A p \in Coords(call.input.shape) :
        LET q == DeliveredIndices[p] IN
        /\ q \in Background(call.input)
        /\ p \in Background(call.input) => q = p
        /\ MetricDistance(1, call.sampling, p, q)
              = SampledDistance(call.input, call.sampling, p)

EdtDistancesExact ==
    LET bf == nd_image_distance_transform_bf(call.input.shape,
                  BoundaryCoding(call.input), 1, call.sampling) IN
    \A p \in Coords(call.input.shape) :
        /\ DeliveredDistances[p]
              = SampledDistance(call.input, call.sampling, p)
        /\ DeliveredDistances[p] = bf.dt[p]

C21_EdtExact ==
    (DistanceReturned /\ call.func = "distance_transform_edt"
        /\ HasBackground(call.input))
    => /\ call.return_indices => EdtFeaturesExact
       /\ call.return_distances => EdtDistancesExact

C21_Witness ==
    /\ DistanceReturned /\ call.func = "distance_transform_edt"
    /\ call.input.on = {<<0, 0>>, <<0, 1>>, <<0, 2>>}
    /\ call.sampling = <<2, 1>>
    /\ call.return_distances /\ call.return_indices
    /\ call.distances # NoBuffer /\ call.indices # NoBuffer
    /\ heap.distances[<<0, 1>>] = 4
    /\ heap.indices[<<0, 1>>] = <<1, 1>>

(***************************************************************************)
(* C22: distance_transform_cdt converges.  For metric 'taxicab' (resp.     *)
(* 'chessboard') and an input with a background voxel, after the passes    *)
(* every voxel holds the exact L1 (resp. L-infinity) distance to the       *)
(* nearest background voxel, so no value exceeds the value of a structural *)
(* neighbour plus 1 and no sentinel -1 remains; and when indices are       *)
(* requested the feature of p is a background voxel at exactly that        *)
(* distance from p.                                                        *)
(***************************************************************************)
ChamferMetricNumber == IF call.metric.name = "taxicab" THEN 2 ELSE 3

ChamferPassesDone ==
    /\ DistanceReturned /\ call.func = "distance_transform_cdt"
    /\ call.metric.name \in {"taxicab", "chessboard"}
    /\ HasBackground(call.input)

ChamferDistancesExact ==
    LET shape == call.input.shape
        dt == DeliveredDistances
        centre == [i \in DOMAIN shape |-> 1] IN
    /\ \A p \in Coords(shape) :
          /\ dt[p] # -1
          /\ dt[p] = TrueDistance(call.input, ChamferMetricNumber, p)
    /\ \A p \in Coords(shape), cell \in heap.metric.on :
          LET q == Plus(p, Minus(cell, centre)) IN
          q \in Coords(shape) => dt[p] <= dt[q] + 1

ChamferFeaturesExact ==
    \A p \in Coords(call.input.shape) :
        LET q == DeliveredIndices[p] IN
        /\ q \in Background(call.input)
        /\ MetricDistance(ChamferMetricNumber, NoSampling, p, q)
              = TrueDistance(call.input, ChamferMetricNumber, p)

C22_ChamferConverges ==
    ChamferPassesDone
    => /\ ChamferDistancesExact
       /\ call.return_indices => ChamferFeaturesExact

\* C22 for the calls that pass no indices array
C22_ChamferConvergesReturnedIndices ==
    (ChamferPassesDone /\ call.indices = NoBuffer)
    => /\ ChamferDistancesExact
       /\ call.return_indices => ChamferFeaturesExact

\* the distances of C22 alone, for every call
C22_ChamferDistancesConverge == ChamferPassesDone => ChamferDistancesExact

(***************************************************************************)
(* The structure helpers: iterate_structure and generate_binary_structure. *)
(* An origin argument is a tuple with one entry per axis (a scalar is      *)
(* normalised to that), NoOrigin when it is None.  heap.out holds the      *)
(* array that is returned and heap.origin the modified origin; result      *)
(* names the expression of the return statement that ran.                  *)
(***************************************************************************)
IterateCall(struct, iters, orig) ==
    [func |-> "iterate_structure", structure |-> struct,
     iterations |-> iters, origin |-> orig,
     rank |-> 0, connectivity |-> 0, output |-> NoArray]

GenerateCall(rank, connectivity) ==
    [func |-> "generate_binary_structure", structure |-> NoArray,
     iterations |-> 0, origin |-> NoOrigin,
     rank |-> rank, connectivity |-> connectivity, output |-> NoArray]

\* shape = [ii + ni * (ii - 1) for ii in structure.shape]
IteratedShape(struct, ni) ==
    [i \in DOMAIN struct.shape |-> struct.shape[i] + ni * (struct.shape[i] - 1)]

\* pos = [ni * (structure.shape[ii] // 2) for ii in range(len(shape))]
IteratedPos(struct, ni) ==
    [i \in DOMAIN struct.shape |-> ni * (struct.shape[i] \div 2)]

\* iterate_structure(structure, iterations, origin)
iterate_structure(struct, iters, orig) ==
    LET ni == iters - 1
        pos == IteratedPos(struct, ni)
        out == BoolArray(IteratedShape(struct, ni),
                         {Plus(c, pos) : c \in struct.on})
        dil == binary_dilation(out, struct, ni, NoArray, 0,
                               ZeroOrigin(Rank(struct)), FALSE)
    IN  IF iters < 2
        THEN [ok |-> TRUE, result |-> "structure.copy()", out |-> struct,
              origin |-> NoOrigin]
        ELSE IF ~dil.ok
        THEN [ok |-> FALSE, result |-> dil.why, out |-> NoArray,
              origin |-> NoOrigin]
        ELSE IF orig = NoOrigin
        THEN [ok |-> TRUE, result |-> "out", out |-> dil.array,
              origin |-> NoOrigin]
        ELSE [ok |-> TRUE, result |-> "out, origin", out |-> dil.array,
              origin |-> [i \in DOMAIN orig |-> iters * orig[i]]]

MaxRank == 3

IterateOrigins(rank) ==
    {NoOrigin} \cup {[i \in 1..rank |-> o] : o \in {-1, 0, 1}}

\* structures of two axes: every 2 x 2 structure, and 2 x 3 and 3 x 3
\* structures with the centre cell on and off
Structures2 ==
    AllArrays(<<2, 2>>)
        \cup {generate_binary_structure(2, 1), generate_binary_structure(2, 2),
              BoolArray(<<3, 3>>, {<<0, 0>>, <<1, 1>>}),
              BoolArray(<<3, 3>>, {<<0, 1>>, <<2, 2>>}),
              BoolArray(<<3, 3>>, {}),
              BoolArray(<<2, 3>>, {<<0, 0>>, <<1, 1>>}),
              BoolArray(<<2, 3>>, {<<0, 2>>, <<1, 0>>}),
              Ones(<<3, 2>>)}

CallsIterate(c) ==
    \E struct \in Structures(StructureShapes1) \cup Structures2,
       iters \in Iterations :
        \E orig \in IterateOrigins(Rank(struct)) :
            c = IterateCall(struct, iters, orig)

CallsGenerate(c) ==
    \E rank \in 0..MaxRank, connectivity \in (-1)..(MaxRank + 1) :
        c = GenerateCall(rank, connectivity)

StructureHeap == [out |-> NoArray, origin |-> NoOrigin]

StructureInit ==
    /\ \/ CallsIterate(call)
       \/ CallsGenerate(call)
    /\ stage = 1
    /\ pc = "call"
    /\ input = NoArray /\ structure = NoArray /\ iterations = 0
    /\ mask = NoArray /\ output = None /\ border_value = 0 /\ origin = <<>>
    /\ invert = 0 /\ brute_force = FALSE
    /\ cit = FALSE /\ return_value = None
    /\ tmp_in = None /\ tmp_out = None /\ changed = FALSE /\ ii = 0
    /\ coordinate_list = {}
    /\ heap = StructureHeap
    /\ result = None
    /\ error = None

\* iterate_structure, from the call to its return statement
IterateStructure ==
    /\ pc = "call"
    /\ call.func = "iterate_structure"
    /\ LET r == iterate_structure(call.structure, call.iterations,
                                  call.origin) IN
       IF r.ok
       THEN /\ pc' = "returned"
            /\ heap' = [out |-> r.out, origin |-> r.origin]
            /\ result' = r.result
            /\ error' = error
       ELSE /\ pc' = "error"
            /\ error' = r.result
            /\ UNCHANGED <<heap, result>>
    /\ Idle

\* generate_binary_structure, from the call to its return statement
GenerateBinaryStructure ==
    /\ pc = "call"
    /\ call.func = "generate_binary_structure"
    /\ pc' = "returned"
    /\ heap' = [heap EXCEPT !.out =
                   generate_binary_structure(call.rank, call.connectivity)]
    /\ result' = "output"
    /\ error' = error
    /\ Idle

StructureNext ==
    \/ IterateStructure
    \/ GenerateBinaryStructure

StructureSpec == StructureInit /\ [][StructureNext]_vars

IterateReturned == pc = "returned" /\ call.func = "iterate_structure"

(***************************************************************************)
(* C23: iterate_structure returns only the iterated structure when origin  *)
(* is None, and the pair of the iterated structure and the modified origin *)
(* whenever origin is not None, for every value of iterations, also for    *)
(* iterations < 2.                                                         *)
(***************************************************************************)
C23_IterateStructureReturn ==
    IterateReturned
    => /\ call.origin = NoOrigin
             => result \in {"out", "structure.copy()"}
       /\ call.origin # NoOrigin
             => /\ result = "out, origin"
                /\ Len(heap.origin) = Rank(call.structure)

\* C23 for the calls with iterations >= 2
C23_IterateStructureReturnIterated ==
    (IterateReturned /\ call.iterations >= 2)
    => /\ call.origin = NoOrigin => result = "out"
       /\ call.origin # NoOrigin
             => /\ result = "out, origin"
                /\ heap.origin
                      = [i \in DOMAIN call.origin |->
                            call.iterations * call.origin[i]]

(***************************************************************************)
(* Vocabulary of C24: the offsets of a structure's true cells from a cell, *)
(* and the n-fold Minkowski sum of a set of offsets with itself.           *)
(***************************************************************************)
CentreOf(a) == [i \in DOMAIN a.shape |-> a.shape[i] \div 2]

OffsetsFrom(a, cell) == {Minus(c, cell) : c \in a.on}

RECURSIVE MinkowskiSum(_, _)
MinkowskiSum(offsets, n) ==
    IF n <= 1 THEN offsets
    ELSE {Plus(a, b) : a \in MinkowskiSum(offsets, n - 1), b \in offsets}

IteratedShapeClaimed ==
    heap.out.shape
        = [i \in DOMAIN call.structure.shape |->
              call.structure.shape[i]
                  + (call.iterations - 1) * (call.structure.shape[i] - 1)]

(***************************************************************************)
(* C24 as claimed: iterate_structure(S, n) for n >= 2 returns an array of  *)
(* per-axis length s + (n-1)*(s-1) whose true cells, taken relative to the *)
(* array's centre (index shape // 2), are the n-fold Minkowski sum of the  *)
(* offsets of S relative to S's centre: S dilated with itself n-1 times,   *)
(* no cell truncated at the edge; for n < 2 it returns a copy of S.        *)
(***************************************************************************)
C24_IteratedAboutCentre ==
    IterateReturned
    => IF call.iterations < 2 THEN heap.out = call.structure
       ELSE /\ IteratedShapeClaimed
            /\ OffsetsFrom(heap.out, CentreOf(heap.out))
                  = MinkowskiSum(OffsetsFrom(call.structure,
                                             CentreOf(call.structure)),
                                 call.iterations)

(***************************************************************************)
(* C24 about the cell the code centres on: the same, with the true cells   *)
(* of the result taken relative to the cell at index n * (s // 2) on every *)
(* axis, which is the centre of the result when every axis of S has odd    *)
(* length.                                                                 *)
(***************************************************************************)
IteratedAnchor ==
    [i \in DOMAIN call.structure.shape |->
        call.iterations * (call.structure.shape[i] \div 2)]

C24_IteratedAboutAnchor ==
    IterateReturned
    => IF call.iterations < 2 THEN heap.out = call.structure
       ELSE /\ IteratedShapeClaimed
            /\ OffsetsFrom(heap.out, IteratedAnchor)
                  = MinkowskiSum(OffsetsFrom(call.structure,
                                             CentreOf(call.structure)),
                                 call.iterations)
            /\ (\A i \in DOMAIN call.structure.shape :
                   call.structure.shape[i] % 2 = 1)
                  => IteratedAnchor = CentreOf(heap.out)

(***************************************************************************)
(* C25: generate_binary_structure(rank, connectivity) for rank >= 1        *)
(* returns a boolean array with three cells on each of rank axes whose     *)
(* cell c is true iff the number of axes on which c differs from the       *)
(* centre is at most max(connectivity, 1).  Hence the centre cell is true, *)
(* the structure is its own reflection along every axis, connectivity 1    *)
(* has no diagonal cell, and connectivity >= rank gives the all-true       *)
(* structure.                                                              *)
(***************************************************************************)
GenerateReturned ==
    pc = "returned" /\ call.func = "generate_binary_structure"

AxesOffCentre(c) == Cardinality({i \in DOMAIN c : c[i] # 1})

ReflectedAlong(a, axis) ==
    {[c EXCEPT ![axis] = a.shape[axis] - 1 - c[axis]] : c \in a.on}

C25_GenerateBinaryStructure ==
    (GenerateReturned /\ call.rank >= 1)
    => LET out == heap.out
           conn == IF call.connectivity > 1 THEN call.connectivity ELSE 1 IN
       /\ out.dtype = "bool"
       /\ out.shape = [i \in 1..call.rank |-> 3]
       /\ \A c \in Coords(out.shape) :
             c \in out.on <=> AxesOffCentre(c) <= conn
       /\ [i \in 1..call.rank |-> 1] \in out.on
       /\ \A axis \in 1..call.rank : ReflectedAlong(out, axis) = out.on
       /\ call.connectivity = 1
             => \A c \in out.on : AxesOffCentre(c) <= 1
       /\ call.connectivity >= call.rank => out = Ones(out.shape)

C25_Witness ==
    /\ GenerateReturned
    /\ call.rank = 3 /\ call.connectivity = 2
    /\ Cardinality(heap.out.on) = 19
    /\ <<0, 0, 0>> \notin heap.out.on
    /\ <<0, 1, 2>> \in heap.out.on

(***************************************************************************)
(* Vocabulary of C26: the fully-connected neighbours of a voxel inside the *)
(* array, and the boundary set handed to the brute-force kernel.           *)
(***************************************************************************)
FullNeighbours(shape, p) ==
    {q \in Coords(shape) :
        q # p /\ \A i \in DOMAIN p : Abs(q[i] - p[i]) <= 1}

BoundarySet == {p \in Coords(call.input.shape) : heap.tmp1[p] < 0}

BoundaryComputed ==
    pc = "bf_kernel" /\ call.func = "distance_transform_bf"

(***************************************************************************)
(* C26 as claimed: the boundary set that distance_transform_bf computes    *)
(* before its scan consists of the voxels that are foreground and have a   *)
(* fully-connected neighbour that is background.                           *)
(***************************************************************************)
C26_BoundaryIsInner ==
    BoundaryComputed
    => BoundarySet
          = {p \in call.input.on :
                \E q \in FullNeighbours(call.input.shape, p) :
                    q \notin call.input.on}

(***************************************************************************)
(* C26 amended: the boundary set consists of the voxels that are           *)
(* background and have a fully-connected neighbour that is foreground (the *)
(* dilation of the foreground by the fully-connected structuring element,  *)
(* minus the foreground); the kernel's input is 1 on the foreground, -1 on *)
(* the boundary set and 0 elsewhere.                                       *)
(***************************************************************************)
C26_BoundaryIsOuter ==
    BoundaryComputed
    => LET outer == {p \in Background(call.input) :
                        \E q \in FullNeighbours(call.input.shape, p) :
                            q \in call.input.on} IN
       /\ BoundarySet = outer
       /\ \A p \in Coords(call.input.shape) :
             heap.tmp1[p] = IF p \in call.input.on THEN 1
                            ELSE IF p \in outer THEN -1 ELSE 0

C26_Witness ==
    /\ BoundaryComputed
    /\ call.input.on = {<<0, 0>>}
    /\ BoundarySet = {<<0, 1>>, <<1, 0>>, <<1, 1>>}
    /\ heap.tmp1[<<0, 0>>] = 1
    /\ heap.tmp1[<<2, 2>>] = 0

(***************************************************************************)
(* C27 as claimed: distance_transform_cdt runs two full forward+backward   *)
(* sweep pairs: the forward-then-backward pass sequence over the whole     *)
(* array is performed twice before the distances (and feature indices) are *)
(* returned.  heap.sweeps lists the kernel calls of the running call, a    *)
(* call on the reversed arrays being a backward pass.                      *)
(***************************************************************************)
ChamferReturned ==
    DistanceReturned /\ call.func = "distance_transform_cdt"

C27_TwoSweepPairs ==
    ChamferReturned
    => heap.sweeps = <<"forward", "backward", "forward", "backward">>

(***************************************************************************)
(* C27 amended: distance_transform_cdt runs one forward and one backward   *)
(* pass: the kernel is called exactly twice before the result is returned, *)
(* first on the arrays as they are and then on the arrays reversed along   *)
(* every axis, and it is not called again.                                 *)
(***************************************************************************)
C27_OneSweepPair ==
    /\ call.func = "distance_transform_cdt"
          => /\ Len(heap.sweeps) <= 2
             /\ pc = "cdt_backward" => heap.sweeps = <<"forward">>
             /\ pc = "cdt_indices" => heap.sweeps = <<"forward", "backward">>
    /\ ChamferReturned => heap.sweeps = <<"forward", "backward">>

C27_Witness ==
    /\ ChamferReturned
    /\ call.metric.name = "taxicab"
    /\ call.input.on = Coords(InputShapeDT) \ {<<1, 1>>}
    /\ heap.sweeps = <<"forward", "backward">>
    /\ DeliveredDistances[<<0, 0>>] = 2
    /\ DeliveredDistances[<<2, 2>>] = 2

(***************************************************************************)
(* C28: strategy selection in _binary_erosion.  iterations == 1 runs       *)
(* exactly one kernel pass.  For iterations != 1 the coordinate-worklist   *)
(* path is taken only if the structure cell at index shape // 2 + origin   *)
(* is true and brute_force is false, and the brute-force path whenever     *)
(* that cell is false or brute_force is true.  For binary_dilation the     *)
(* test is made on the reflected structure with the adjusted origin and    *)
(* gives the answer of the test on the caller's structure and origin.      *)
(* The brute-force path is the one that names its two buffers (tmp_out).   *)
(***************************************************************************)
DriverDispatched ==
    IsErosionOrDilation /\ pc \in {"dispatch", "loop", "done"}

BruteForcePathTaken == DriverDispatched /\ tmp_out # None

C28_StrategySelection ==
    DriverDispatched
    => /\ cit = CentreOn(call)
       /\ call.func = "binary_dilation"
             => cit = (CenterIndex(ReflectStructure(call.structure),
                                   ReflectOrigin(call.structure, call.origin))
                          \in ReflectStructure(call.structure).on)
       /\ pc = "loop" => BruteForcePathTaken
       /\ BruteForcePathTaken
             => /\ call.iterations # 1
                /\ ~CentreOn(call) \/ call.brute_force
                /\ ii >= 1
       /\ (pc = "done" /\ call.iterations = 1)
             => /\ ~BruteForcePathTaken
                /\ ii = 0 /\ coordinate_list = {}
                /\ Delivered = SingleIteration(call, call.input).array
       /\ (pc = "done" /\ call.iterations # 1)
             => (BruteForcePathTaken
                   <=> (~CentreOn(call) \/ call.brute_force))

C28_Witness ==
    /\ DriverDispatched /\ pc = "done"
    /\ call.func = "binary_dilation"
    /\ call.structure = BoolArray(<<2>>, {<<0>>})
    /\ call.origin = <<-1>>
    /\ call.iterations = 2
    /\ ~call.brute_force
    /\ cit
    /\ ~BruteForcePathTaken
    /\ structure = call.structure /\ origin = call.origin

(***************************************************************************)
(* C29 as claimed: closing is extensive.  For every input X, every         *)
(* structure whose centre cell is true and every iterations >= 1, each     *)
(* foreground voxel of X is foreground in binary_closing(X, S), also next  *)
(* to the array border.                                                    *)
(***************************************************************************)
ClosingReturned ==
    /\ Returned /\ call.func = "binary_closing"
    /\ CentreOn(call) /\ call.iterations >= 1

C29_ClosingExtensive == ClosingReturned => call.input.on \subseteq Delivered.on

(***************************************************************************)
(* C29 away from the border: a foreground voxel p of X is foreground in    *)
(* the closing                                                             *)
(* when every voxel reached from p by at most `iterations` steps along     *)
(* offsets of S (true cell minus the cell shape // 2 + origin) lies inside *)
(* the array; for iterations = 1 every other foreground voxel of X is      *)
(* removed, the erosion counting a neighbour outside the array as          *)
(* background.                                                             *)
(***************************************************************************)
StructureOffsets(c) == {Minus(cell, CentreCell(c)) : cell \in c.structure.on}

RECURSIVE StepsStayInside(_, _, _)
StepsStayInside(c, p, n) ==
    \/ n = 0
    \/ \A o \in StructureOffsets(c) :
          /\ Plus(p, o) \in Coords(c.input.shape)
          /\ StepsStayInside(c, Plus(p, o), n - 1)

C29_ClosingExtensiveInside ==
    ClosingReturned
    => \A p \in call.input.on :
          /\ StepsStayInside(call, p, call.iterations) => p \in Delivered.on
          /\ (call.iterations = 1 /\ p \in Delivered.on)
                => StepsStayInside(call, p, 1)

(***************************************************************************)
(* C30: ping-pong buffer parity.  On the brute-force path with an output   *)
(* array of the caller, for every iterations value (even, odd, and < 1     *)
(* with a number of passes that depends on the data), the caller's array   *)
(* holds the result of the final pass when the call returns, and equals    *)
(* the array returned by the same call made without an output array.       *)
(***************************************************************************)
BruteForceIntoOutput ==
    /\ Returned /\ IsErosionOrDilation
    /\ call.output # NoArray
    /\ BruteForcePathTaken

WithoutOutput(c) ==
    IF c.func = "binary_erosion"
    THEN binary_erosion(c.input, c.structure, c.iterations, c.mask,
                        c.border_value, c.origin, c.brute_force)
    ELSE binary_dilation(c.input, c.structure, c.iterations, c.mask,
                         c.border_value, c.origin, c.brute_force)

ParityHolds ==
    /\ heap.out = heap[tmp_out]
    /\ WithoutOutput(call).ok => heap.out = WithoutOutput(call).array.on

C30_PingPongParity == BruteForceIntoOutput => ParityHolds

\* C30 for a counted number of passes (iterations >= 1)
C30_PingPongParityCounted ==
    (BruteForceIntoOutput /\ call.iterations >= 1) => ParityHolds

====
